---- MODULE Spec2Model ----
(***************************************************************************)
(* A model of wxMaxima's XML-to-cell parser (MathParser) and of three of   *)
(* its cell types (FunCell, LimitCell, SubSupCell).                        *)
(*                                                                         *)
(* Strings the code inspects character by character (text contents, label  *)
(* values, renderings) are sequences of one-character strings; "NL" stands *)
(* for the line feed and "U2212" for the unicode minus sign.  Strings the  *)
(* code only compares (tag names, attribute values, styles) are strings.   *)
(* A chain of cells linked by m_next is a sequence of cell records, the    *)
(* empty sequence being the null pointer.  A wxXmlNode pointer is the      *)
(* sequence made of the node and its following siblings, the empty         *)
(* sequence being the null pointer.                                        *)
(***************************************************************************)
EXTENDS Integers, Sequences, FiniteSets, TLC

\* ------------------------------------------------------------------------
\* wxString operations
\* ------------------------------------------------------------------------

Max(a, b) == IF a >= b THEN a ELSE b
Min(a, b) == IF a <= b THEN a ELSE b

Whitespace == {" ", "NL", "TAB"}

RECURSIVE TrimRight(_)
\* wxString::Trim() with its default argument: strips trailing whitespace.
TrimRight(s) ==
  IF s # <<>> /\ s[Len(s)] \in Whitespace
    THEN TrimRight(SubSeq(s, 1, Len(s) - 1))
    ELSE s

RECURSIVE Replace(_, _, _)
\* wxString::Replace(old, new) for a one-character old string.
Replace(s, old, new) ==
  IF s = <<>> THEN <<>>
  ELSE <<IF Head(s) = old THEN new ELSE Head(s)>> \o Replace(Tail(s), old, new)

RECURSIVE TokenizeFrom(_, _, _)
TokenizeFrom(s, delim, cur) ==
  IF s = <<>> THEN (IF cur = <<>> THEN <<>> ELSE <<cur>>)
  ELSE IF Head(s) = delim
    THEN (IF cur = <<>> THEN <<>> ELSE <<cur>>) \o TokenizeFrom(Tail(s), delim, <<>>)
    ELSE TokenizeFrom(Tail(s), delim, Append(cur, Head(s)))

\* wxStringTokenizer as the parser uses it: the tokens between delimiters,
\* empty tokens left out (strtok mode for '\n'; the callers that split on
\* ';' drop the empty tokens themselves).
Tokenize(s, delim) == TokenizeFrom(s, delim, <<>>)

RECURSIVE FindFrom(_, _, _)
FindFrom(s, sub, i) ==
  IF i + Len(sub) > Len(s) THEN -1
  ELSE IF SubSeq(s, i + 1, i + Len(sub)) = sub THEN i
  ELSE FindFrom(s, sub, i + 1)

wxNOT_FOUND == -1

\* wxString::Find(sub): the 0-based index of the first occurrence, or
\* wxNOT_FOUND.
Find(s, sub) == FindFrom(s, sub, 0)

\* wxString::Mid(first, count)
Mid(s, first, count) ==
  IF first >= Len(s) THEN <<>>
  ELSE SubSeq(s, first + 1, Min(Len(s), first + count))

\* wxString::SubString(from, to) == Mid(from, (to - from + 1)) with both
\* arguments and the count converted to size_t (64 bits, wrapping): a
\* negative from is past every string's end, and a negative count wraps to
\* a count larger than any string, which Mid cuts to the rest of the
\* string.
SubString(s, from, to) ==
  IF from < 0 THEN <<>>
  ELSE IF to - from + 1 < 0 THEN Mid(s, from, Len(s))
  ELSE Mid(s, from, to - from + 1)

\* wxString::Right(count) and wxString::Left(count)
Right(s, count) == IF count >= Len(s) THEN s ELSE SubSeq(s, Len(s) - count + 1, Len(s))
Left(s, count) == IF count >= Len(s) THEN s ELSE SubSeq(s, 1, count)

Contains(s, sub) == Find(s, sub) # wxNOT_FOUND

RECURSIVE Concat(_)
\* The concatenation of a sequence of strings.
Concat(ss) == IF ss = <<>> THEN <<>> ELSE Head(ss) \o Concat(Tail(ss))

\* ------------------------------------------------------------------------
\* wxXmlNode
\* ------------------------------------------------------------------------

NoAttrs == [a \in {} |-> ""]

\* An element node and a text node.
Elem(name, attrs, children) ==
  [kind |-> "element", name |-> name, attrs |-> attrs, children |-> children,
   content |-> <<>>]
Text(content) ==
  [kind |-> "text", name |-> "text", attrs |-> NoAttrs, children |-> <<>>,
   content |-> content]

\* wxXmlNode::GetAttribute(name, default) and GetAttribute(name, &value)
GetAttribute(node, name, default) ==
  IF name \in DOMAIN node.attrs THEN node.attrs[name] ELSE default
HasAttribute(node, name) == name \in DOMAIN node.attrs

\* wxXmlNode::GetNodeContent(): the content of the first text child.
GetNodeContent(node) ==
  LET texts == SelectSeq(node.children, LAMBDA c : c.kind = "text")
  IN  IF texts = <<>> THEN <<>> ELSE texts[1].content

\* MathParser::SkipWhitespaceNode
SkipWhitespaceNode(node) ==
  IF node # <<>> /\ Head(node).kind = "text" /\ Len(TrimRight(Head(node).content)) <= 1
    THEN Tail(node)
    ELSE node

\* MathParser::GetNextTag
GetNextTag(node) ==
  SkipWhitespaceNode(IF node # <<>> THEN Tail(node) ELSE node)

\* ------------------------------------------------------------------------
\* Cells
\* ------------------------------------------------------------------------

NoKids == [k \in {} |-> <<>>]
NoOpts == [o \in {} |-> ""]

\* A freshly constructed cell of a class: the state every Cell starts in.
\* kids maps each owned child position to the chain stored there, scripts
\* is SubSupCell's m_scriptCells (the positions whose occupant the vector
\* refers to, in order), opts the class's own settings.
NewCell(class) ==
  [class |-> class, type |-> "MC_TYPE_DEFAULT", style |-> "TS_DEFAULT",
   breakLine |-> FALSE, toolTip |-> "", altCopy |-> <<>>, highlight |-> FALSE,
   hidable |-> FALSE, broken |-> FALSE, value |-> <<>>, kids |-> NoKids,
   scripts |-> <<>>, opts |-> NoOpts]

\* TextCell(parent, config, text, style)
TextCell(text, style) == [NewCell("TextCell") EXCEPT !.value = text, !.style = style]

Kid(cell, slot) == IF slot \in DOMAIN cell.kids THEN cell.kids[slot] ELSE <<>>
SetKid(cell, slot, chain) == [cell EXCEPT !.kids = (slot :> chain) @@ cell.kids]
SetOpt(cell, opt, v) == [cell EXCEPT !.opts = (opt :> v) @@ cell.opts]
Opt(cell, opt, default) == IF opt \in DOMAIN cell.opts THEN cell.opts[opt] ELSE default

\* An operation applied to the cell a non-null pointer refers to: the head
\* of the chain.
OnHead(chain, F(_)) == IF chain = <<>> THEN <<>> ELSE <<F(Head(chain))>> \o Tail(chain)

ForceBreakLine(chain) == OnHead(chain, LAMBDA c : [c EXCEPT !.breakLine = TRUE])
SetStyle(chain, style) == OnHead(chain, LAMBDA c : [c EXCEPT !.style = style])
SetType(chain, type) == OnHead(chain, LAMBDA c : [c EXCEPT !.type = type])
SetToolTip(chain, tip) == OnHead(chain, LAMBDA c : [c EXCEPT !.toolTip = tip])
SetAltCopyText(chain, text) == OnHead(chain, LAMBDA c : [c EXCEPT !.altCopy = text])
SetHighlight(chain, h) == OnHead(chain, LAMBDA c : [c EXCEPT !.highlight = h])
SetExponentFlag(chain) == OnHead(chain, LAMBDA c : SetOpt(c, "exponent", "true"))

\* Cell::AppendCell: walks to the end of the chain and links the new cells
\* there; appending nothing changes nothing.
AppendCell(chain, more) == chain \o more

\* _("Bug: Missing contents") and the tooltip that explains it
MissingContents ==
  <<"B", "u", "g", ":", " ", "M", "i", "s", "s", "i", "n", "g", " ",
    "c", "o", "n", "t", "e", "n", "t", "s">>
MissingToolTip == "The xml data from maxima or from the .wxmx file was missing data here."

\* MathParser::HandleNullPointer
HandleNullPointer(cell) ==
  IF cell = <<>>
    THEN SetStyle(SetToolTip(<<TextCell(MissingContents, "TS_DEFAULT")>>, MissingToolTip),
                  "TS_ERROR")
    ELSE cell

\* MathParser::ParseCommonAttrs
ParseCommonAttrs(node, cell) ==
  IF cell = <<>> \/ node = <<>> THEN cell
  ELSE
    LET n  == Head(node)
        c1 == IF GetAttribute(n, "breakline", "false") = "true"
                THEN ForceBreakLine(cell) ELSE cell
        c2 == IF HasAttribute(n, "tooltip")
                THEN SetToolTip(c1, n.attrs["tooltip"]) ELSE c1
    IN  IF HasAttribute(n, "altCopy") THEN SetAltCopyText(c2, n.attrs["altCopy"]) ELSE c2

\* The cell type ParseText gives a text cell of a style.
TextTypeOf(style, parserStyle) ==
  CASE style = "TS_ERROR" -> "MC_TYPE_ERROR"
    [] style = "TS_WARNING" -> "MC_TYPE_WARNING"
    [] style = "TS_LABEL" -> "MC_TYPE_LABEL"
    [] style = "TS_USERLABEL" -> "MC_TYPE_LABEL"
    [] OTHER -> parserStyle

\* MathParser::ParseText: one text cell per line of the node's content, every
\* line after the first forcing a line break; an empty text cell when there
\* is no content.
ParseText(p, node, style) ==
  LET str    == IF node # <<>> THEN Head(node).content ELSE <<>>
      lines  == Tokenize(Replace(str, "-", "U2212"), "NL")
      mk(i)  == [NewCell("TextCell") EXCEPT
                   !.type = TextTypeOf(style, p.ParserStyle),
                   !.style = style,
                   !.highlight = p.highlight,
                   !.value = lines[i],
                   !.breakLine = (i > 1)]
      retval == IF lines = <<>> THEN <<NewCell("TextCell")>>
                ELSE [i \in 1..Len(lines) |-> mk(i)]
  IN  ParseCommonAttrs(node, retval)

\* ------------------------------------------------------------------------
\* Renderings used while parsing
\* ------------------------------------------------------------------------

\* VisiblyInvalidCell, the placeholder InvalidCellOr substitutes for a null
\* child.
VisiblyInvalidCell ==
  [NewCell("VisiblyInvalidCell") EXCEPT !.value = <<"?">>, !.style = "TS_ERROR"]

\* Cell::InvalidCellOr
InvalidCellOr(cell) == IF cell = <<>> THEN <<VisiblyInvalidCell>> ELSE cell

\* Cell::IsOperator for a text cell: its text is an operator sign.
IsOperator(c) ==
  c.class = "TextCell" /\ c.value \in {<<"+">>, <<"*">>, <<"/">>, <<"-">>, <<"U2212">>}

\* Cell::IsCompound: some cell of the chain is an operator.
IsCompound(chain) == \E i \in 1..Len(chain) : IsOperator(chain[i])

\* The child positions of a class in the order its text form shows them.
KidSlots(class) ==
  CASE class = "FracCell" -> <<"num", "denom">>
    [] class = "DiffCell" -> <<"diff", "base">>
    [] class = "ExptCell" -> <<"base", "power">>
    [] class = "SubCell" -> <<"base", "index">>
    [] class = "AtCell" -> <<"base", "index">>
    [] class = "SqrtCell" -> <<"inner">>
    [] class = "AbsCell" -> <<"inner">>
    [] class = "ConjugateCell" -> <<"inner">>
    [] class = "ParenCell" -> <<"inner">>
    [] class = "SumCell" -> <<"base", "under", "over">>
    [] class = "IntCell" -> <<"base", "var", "under", "over">>
    [] class = "MatrCell" -> <<"cells">>
    [] OTHER -> <<>>

RECURSIVE ListToString(_), Cell_ToString(_)

\* FunCell::ToString
FunCell_ToString(c) ==
  IF c.broken THEN <<>>
  ELSE IF c.altCopy # <<>> THEN c.altCopy
  ELSE ListToString(Kid(c, "name")) \o ListToString(Kid(c, "arg"))

\* A limit's text form that takes the target as it is written.
LimitTextPlain(under, base) ==
  LET var == SubString(under, 0, Find(under, <<"-", ">">>) - 1)
      to0 == SubString(under, Find(under, <<"-", ">">>) + 2, Len(under) - 1)
  IN  <<"l", "i", "m", "i", "t">> \o <<"(">> \o base \o <<",">> \o var \o <<",">>
        \o to0 \o <<")">>

\* The part of the limit's text form computed from the rendering of the
\* under cell and of the base: LimitCell::ToString and LimitCell::ToMatlab
\* compute it the same way, each from its own rendering of the children.
LimitText(under, base) ==
  LET var == SubString(under, 0, Find(under, <<"-", ">">>) - 1)
      to0 == SubString(under, Find(under, <<"-", ">">>) + 2, Len(under) - 1)
      to1 == IF Right(to0, 1) = <<"+">>
               THEN Left(to0, Len(to0) - 1) \o <<",", "p", "l", "u", "s">>
               ELSE to0
      to2 == IF Right(to1, 1) = <<"-">>
               THEN Left(to1, Len(to1) - 1) \o <<",", "m", "i", "n", "u", "s">>
               ELSE to1
  IN  <<"l", "i", "m", "i", "t">> \o <<"(">> \o base \o <<",">> \o var \o <<",">>
        \o to2 \o <<")">>

\* LimitCell::ToString
LimitCell_ToString(c) ==
  LimitText(ListToString(Kid(c, "under")), ListToString(Kid(c, "base")))

\* SubSupCell::ToString reads m_postSubCell and m_postSupCell without a
\* check when m_scriptCells is empty.
SubSupCell_ToStringDerefsNull(c) ==
  c.altCopy = <<>> /\ c.scripts = <<>>
    /\ (Kid(c, "postSub") = <<>> \/ Kid(c, "postSup") = <<>>)

\* SubSupCell::ToString, for a cell it reads no absent script of.
SubSupCell_ToString(c) ==
  IF c.altCopy # <<>> THEN c.altCopy
  ELSE
    LET b == IF IsCompound(Kid(c, "base"))
               THEN <<"(">> \o ListToString(Kid(c, "base")) \o <<")">>
               ELSE ListToString(Kid(c, "base"))
    IN  IF c.scripts = <<>>
          THEN b \o <<"[">> \o ListToString(Kid(c, "postSub")) \o <<"]">> \o <<"^">>
                 \o (IF IsCompound(Kid(c, "postSup")) THEN <<"(">> ELSE <<>>)
                 \o ListToString(Kid(c, "postSup"))
                 \o (IF IsCompound(Kid(c, "postSup")) THEN <<")">> ELSE <<>>)
          ELSE b \o Concat([i \in 1..Len(c.scripts) |->
                              <<"[">> \o ListToString(Kid(c, c.scripts[i])) \o <<"]">>])

\* Cell::ToString of the classes the parser builds.
Cell_ToString(c) ==
  CASE c.class = "FunCell" -> FunCell_ToString(c)
    [] c.class = "LimitCell" -> LimitCell_ToString(c)
    [] c.class = "SubSupCell" -> SubSupCell_ToString(c)
    [] c.class = "ParenCell" -> <<"(">> \o ListToString(Kid(c, "inner")) \o <<")">>
    [] c.class \in {"TextCell", "VisiblyInvalidCell", "EditorCell"} ->
         (IF c.altCopy # <<>> THEN c.altCopy ELSE c.value)
    [] OTHER ->
         Concat([i \in 1..Len(KidSlots(c.class)) |->
                   ListToString(Kid(c, KidSlots(c.class)[i]))])

\* Cell::ListToString: the text forms of the cells of a chain, in order.
ListToString(chain) == Concat([i \in 1..Len(chain) |-> Cell_ToString(chain[i])])

RECURSIVE ToStringDerefsNull(_)
\* Whether rendering a chain as text reads an absent script somewhere.
ToStringDerefsNull(chain) ==
  \E i \in 1..Len(chain) :
    \/ chain[i].class = "SubSupCell" /\ SubSupCell_ToStringDerefsNull(chain[i])
    \/ \E k \in DOMAIN chain[i].kids : ToStringDerefsNull(chain[i].kids[k])

\* ------------------------------------------------------------------------
\* MathParser: state
\* ------------------------------------------------------------------------

\* m_innerTags as the first MathParser's constructor fills it: tag name to
\* construction routine.
InnerTagsInit ==
  ("v" :> "ParseVariableNameTag") @@ ("mi" :> "ParseVariableNameTag")
  @@ ("mo" :> "ParseOperatorNameTag") @@ ("t" :> "ParseMiscTextTag")
  @@ ("n" :> "ParseNumberTag") @@ ("mn" :> "ParseNumberTag")
  @@ ("p" :> "ParseParenTag") @@ ("f" :> "ParseFracTag")
  @@ ("mfrac" :> "ParseFracTag") @@ ("e" :> "ParseSupTag")
  @@ ("msup" :> "ParseSupTag") @@ ("i" :> "ParseSubTag")
  @@ ("munder" :> "ParseSubTag") @@ ("fn" :> "ParseFunTag")
  @@ ("g" :> "ParseGreekTag") @@ ("s" :> "ParseSpecialConstantTag")
  @@ ("fnm" :> "ParseFunctionNameTag") @@ ("q" :> "ParseSqrtTag")
  @@ ("d" :> "ParseDiffTag") @@ ("sm" :> "ParseSumTag")
  @@ ("in" :> "ParseIntTag") @@ ("mspace" :> "ParseSpaceTag")
  @@ ("at" :> "ParseAtTag") @@ ("a" :> "ParseAbsTag")
  @@ ("cj" :> "ParseConjugateTag") @@ ("ie" :> "ParseSubSupTag")
  @@ ("mmultiscripts" :> "ParseMmultiscriptsTag") @@ ("lm" :> "ParseLimitTag")
  @@ ("r" :> "ParseTagContents") @@ ("mrow" :> "ParseTagContents")
  @@ ("tb" :> "ParseTableTag") @@ ("mth" :> "ParseMthTag")
  @@ ("line" :> "ParseMthTag") @@ ("lbl" :> "ParseOutputLabelTag")
  @@ ("st" :> "ParseStringTag") @@ ("hl" :> "ParseHighlightTag")
  @@ ("h" :> "ParseHiddenOperatorTag") @@ ("img" :> "ParseImageTag")
  @@ ("slide" :> "ParseSlideshowTag") @@ ("editor" :> "ParseEditorTag")
  @@ ("cell" :> "ParseCellTag") @@ ("ascii" :> "ParseCharCode")

\* m_groupTags as the first MathParser's constructor fills it: cell type to
\* the routine that makes the group cell.
GroupTagsInit ==
  ("code" :> "GroupCellFromCodeTag") @@ ("image" :> "GroupCellFromImageTag")
  @@ ("pagebreak" :> "GroupCellFromPagebreakTag") @@ ("text" :> "GroupCellFromTextTag")
  @@ ("title" :> "GroupCellFromTitleTag") @@ ("section" :> "GroupCellFromSectionTag")
  @@ ("subsection" :> "GroupCellFromSubsectionTag")
  @@ ("subsubsection" :> "GroupCellFromSubsubsectionTag")
  @@ ("heading5" :> "GroupCellHeading5Tag") @@ ("heading6" :> "GroupCellHeading6Tag")

\* operator[] of the hash map behind a dispatch table: the value stored for
\* the key, a key not yet in the table being inserted with a null routine.
TableGet(table, key) == IF key \in DOMAIN table THEN table[key] ELSE "null"
TableAfterGet(table, key) ==
  IF key \in DOMAIN table THEN table ELSE (key :> "null") @@ table

\* MathParser::MathParser: the members a parser starts with.  The dispatch
\* tables are static: a constructor fills a table only when it is empty.
\* zip says whether a zip file was named (m_fileSystem is then set).
NewParser(innerTags, groupTags, zip) ==
  [innerTags |-> IF DOMAIN innerTags = {} THEN InnerTagsInit ELSE innerTags,
   groupTags |-> IF DOMAIN groupTags = {} THEN GroupTagsInit ELSE groupTags,
   ParserStyle |-> "MC_TYPE_DEFAULT",
   FracStyle |-> "FC_NORMAL",
   highlight |-> FALSE,
   userDefinedLabel |-> <<>>,
   zip |-> zip]

\* What one call into the parser adds to the parser's members while it
\* runs: the answers of the file system (env), the number of XML documents
\* loaded and of warnings shown so far in the call, the first fault (a null
\* pointer read, an exception thrown) and whether a loop stopped advancing.
InCall(parser, env) ==
  [innerTags |-> parser.innerTags, groupTags |-> parser.groupTags,
   ParserStyle |-> parser.ParserStyle, FracStyle |-> parser.FracStyle,
   highlight |-> parser.highlight, userDefinedLabel |-> parser.userDefinedLabel,
   zip |-> parser.zip,
   env |-> env, loads |-> 0, warnings |-> 0, fault |-> "", hang |-> FALSE]

\* The parser's members at the end of a call.
AfterCall(p) ==
  [innerTags |-> p.innerTags, groupTags |-> p.groupTags,
   ParserStyle |-> p.ParserStyle, FracStyle |-> p.FracStyle,
   highlight |-> p.highlight, userDefinedLabel |-> p.userDefinedLabel,
   zip |-> p.zip]

Fault(p, kind) == IF p.fault = "" THEN [p EXCEPT !.fault = kind] ELSE p

\* What a routine returns: the parser's state after it and the fragment.
R(p, cell) == [p |-> p, cell |-> cell]

OnHeadKid(chain, slot, kid) == OnHead(chain, LAMBDA c : SetKid(c, slot, kid))
OnHeadOpt(chain, opt, v) == OnHead(chain, LAMBDA c : SetOpt(c, opt, v))

\* ------------------------------------------------------------------------
\* The three cell types: construction and setters
\* ------------------------------------------------------------------------

\* FunCell::SetName
FunCell_SetName(cell, name) ==
  OnHeadKid(cell, "name", SetStyle(InvalidCellOr(name), "TS_FUNCTION"))

\* FunCell::SetArg
FunCell_SetArg(cell, arg) == OnHeadKid(cell, "arg", InvalidCellOr(arg))

\* FunCell::FunCell(parent, config, init)
FunCell_New(init) ==
  IF init THEN FunCell_SetArg(FunCell_SetName(<<NewCell("FunCell")>>, <<>>), <<>>)
  ELSE <<NewCell("FunCell")>>

\* LimitCell::SetName, SetBase, SetUnder
LimitCell_SetName(cell, name) == OnHeadKid(cell, "name", InvalidCellOr(name))
LimitCell_SetBase(cell, base) == OnHeadKid(cell, "base", InvalidCellOr(base))
LimitCell_SetUnder(cell, under) == OnHeadKid(cell, "under", InvalidCellOr(under))

\* LimitCell::LimitCell(parent, config, init)
LimitCell_New(init) ==
  LET c0 == OnHeadKid(OnHeadKid(OnHeadKid(<<NewCell("LimitCell")>>,
                "open", <<TextCell(<<"(">>, "TS_FUNCTION")>>),
                "comma", <<TextCell(<<",">>, "TS_FUNCTION")>>),
                "close", <<TextCell(<<")">>, "TS_FUNCTION")>>)
  IN  IF init
        THEN LimitCell_SetName(LimitCell_SetUnder(LimitCell_SetBase(c0, <<>>), <<>>), <<>>)
        ELSE c0

\* RemoveCell(m_scriptCells, occupant): the vector without its references
\* to the occupant of a position.
RemoveCell(scripts, slot) == SelectSeq(scripts, LAMBDA x : x # slot)

\* SubSupCell::SetPreSup, SetPreSub, SetPostSup, SetPostSub: a null script
\* changes nothing; otherwise the script replaces the occupant and is
\* entered at the end of m_scriptCells.
SubSupCell_SetScript(cell, slot, script) ==
  IF script = <<>> THEN cell
  ELSE OnHead(cell, LAMBDA c :
         [SetKid(c, slot, script) EXCEPT !.scripts = Append(RemoveCell(c.scripts, slot), slot)])

SubSupCell_SetPreSup(cell, script) == SubSupCell_SetScript(cell, "preSup", script)
SubSupCell_SetPreSub(cell, script) == SubSupCell_SetScript(cell, "preSub", script)
SubSupCell_SetPostSup(cell, script) == SubSupCell_SetScript(cell, "postSup", script)
SubSupCell_SetPostSub(cell, script) == SubSupCell_SetScript(cell, "postSub", script)

\* SubSupCell::SetIndex and SetExponent: the script replaces the occupant
\* and is not entered in m_scriptCells.
SubSupCell_SetIndex(cell, index) ==
  IF index = <<>> THEN cell
  ELSE OnHead(cell, LAMBDA c :
         [SetKid(c, "postSub", index) EXCEPT !.scripts = RemoveCell(c.scripts, "postSub")])

SubSupCell_SetExponent(cell, expt) ==
  IF expt = <<>> THEN cell
  ELSE OnHead(cell, LAMBDA c :
         [SetKid(c, "postSup", expt) EXCEPT !.scripts = RemoveCell(c.scripts, "postSup")])

\* SubSupCell::SetBase
SubSupCell_SetBase(cell, base) ==
  IF base = <<>> THEN cell ELSE OnHeadKid(cell, "base", base)

\* SubSupCell::SubSupCell(parent, config)
SubSupCell_New == OnHeadKid(<<NewCell("SubSupCell")>>, "base", <<VisiblyInvalidCell>>)

\* ------------------------------------------------------------------------
\* MathParser: the tag routines
\* ------------------------------------------------------------------------

RECURSIVE ParseTag(_, _, _), CallRoutine(_, _, _)

\* node->GetChildren() of the element a routine was handed.
Children(node) == Head(node).children

\* The routines of the tags that hold a run of text of one style
\* (ParseVariableNameTag, ParseOperatorNameTag, ParseNumberTag,
\* ParseGreekTag, ParseSpecialConstantTag, ParseFunctionNameTag,
\* ParseStringTag): the text of the element in that style.
ParseStyledTextTag(p, node, style) == R(p, ParseText(p, Children(node), style))

\* ParseSpaceTag: a text cell holding one space.
ParseSpaceTag(p, node) == R(p, <<TextCell(<<" ">>, "TS_DEFAULT")>>)

\* MathParser::ParseHiddenOperatorTag
ParseHiddenOperatorTag(p, node) ==
  R(p, OnHead(ParseText(p, Children(node), "TS_DEFAULT"),
              LAMBDA c : [c EXCEPT !.hidable = TRUE]))

\* MathParser::ParseTagContents
ParseTagContents(p, node) ==
  IF node # <<>> /\ Children(node) # <<>> THEN ParseTag(p, Children(node), TRUE)
  ELSE R(p, <<>>)

\* A ParseHighlightTag that leaves the highlight switched on.
ParseHighlightTagStays(p, node) ==
  ParseTag([p EXCEPT !.highlight = TRUE], Children(node), TRUE)

\* MathParser::ParseHighlightTag
ParseHighlightTag(p, node) ==
  LET highlight == p.highlight
      r == ParseTag([p EXCEPT !.highlight = TRUE], Children(node), TRUE)
  IN  R([r.p EXCEPT !.highlight = highlight], r.cell)

\* MathParser::ParseMiscTextTag
ParseMiscTextTag(p, node) ==
  LET type  == GetAttribute(Head(node), "type", "")
      style == IF type = "warning" THEN "TS_WARNING"
               ELSE IF type = "error" THEN "TS_ERROR" ELSE "TS_DEFAULT"
  IN  R(p, ParseText(p, Children(node), style))

\* wxString::ToLong for the attribute values the model uses.
ToLongOk(str) == str \in {"0", "1", "2", "5"}

\* The two wxStringTokenizer loops of ParseSlideshowTag: the non-empty file
\* names, and the number of (gnuplot source, data) pairs attached, one per
\* image while both lists last.
SlideImages(str) == Tokenize(str, ";")
SlidePairs(numImgs, gnuplotSources, gnuplotData) ==
  Min(numImgs, Min(Len(Tokenize(gnuplotSources, ";")), Len(Tokenize(gnuplotData, ";"))))

\* MathParser::ParseSlideshowTag.  node->GetChildren()->GetContent() reads
\* through the pointer to the first child without a check: with no child
\* the read is of a null pointer, after which the content is whatever the
\* build makes of it (env.garbage).
ParseSlideshowTag(p, node) ==
  LET n    == Head(node)
      del  == GetAttribute(n, "del", "false") = "true"
      p1   == IF Children(node) = <<>> THEN Fault(p, "null_deref") ELSE p
      str  == IF Children(node) = <<>> THEN p.env.garbage ELSE Head(Children(node)).content
      s0   == <<NewCell("SlideShow")>>
      s1   == IF HasAttribute(n, "fr") /\ ToLongOk(n.attrs["fr"])
                THEN OnHeadOpt(s0, "frameRate", n.attrs["fr"]) ELSE s0
      s2   == IF HasAttribute(n, "frame") /\ ToLongOk(n.attrs["frame"])
                THEN OnHeadOpt(s1, "displayedIndex", n.attrs["frame"]) ELSE s1
      s3   == IF GetAttribute(n, "running", "true") = "false"
                THEN OnHeadOpt(s2, "running", "false") ELSE s2
      imgs == SlideImages(str)
      s4   == OnHeadOpt(OnHeadOpt(s3, "images", imgs), "del", IF del THEN "true" ELSE "false")
      s5   == OnHeadOpt(s4, "gnuplotPairs",
                SlidePairs(Len(imgs), GetAttribute(n, "gnuplotSources", <<>>),
                           GetAttribute(n, "gnuplotData", <<>>)))
  IN  R(p1, s5)

\* MathParser::ParseImageTag.  The first child is read without a check, as
\* in ParseSlideshowTag.  env.imageCount is wxImage::GetImageCount's answer
\* for the file, env.inWorkDir wxFileExists' for the working directory.
ParseImageTag(p, node) ==
  LET n        == Head(node)
      p1       == IF Children(node) = <<>> THEN Fault(p, "null_deref") ELSE p
      filename == IF Children(node) = <<>> THEN p.env.garbage
                  ELSE Head(Children(node)).content
      delAttr  == GetAttribute(n, "del", "yes") # "no"
      localName == IF ~p.zip /\ ~delAttr /\ p.env.inWorkDir
                     THEN <<"w", "d", "/">> \o filename ELSE filename
      img0     == OnHeadOpt(OnHeadOpt(<<NewCell("ImgCell")>>, "filename", localName),
                            "del", IF ~p.zip /\ delAttr THEN "true" ELSE "false")
      img1     == IF GetAttribute(n, "gnuplotsource", <<>>) # <<>>
                    THEN OnHeadOpt(img0, "gnuplotSource", n.attrs["gnuplotsource"]) ELSE img0
      img2     == IF GetAttribute(n, "rect", "true") = "false"
                    THEN OnHeadOpt(img1, "rect", "false") ELSE img1
      img3     == IF GetAttribute(n, "maxWidth", "-1") # "-1" /\ ToLongOk(n.attrs["maxWidth"])
                    THEN OnHeadOpt(img2, "maxWidth", n.attrs["maxWidth"]) ELSE img2
      img4     == IF GetAttribute(n, "maxHeight", "-1") # "-1" /\ ToLongOk(n.attrs["maxHeight"])
                    THEN OnHeadOpt(img3, "maxHeight", n.attrs["maxHeight"]) ELSE img3
  IN  IF ~p.zip /\ p.env.imageCount >= 2
        THEN R(p1, OnHeadOpt(OnHeadOpt(<<NewCell("SlideShow")>>, "filename", localName),
                             "del", IF delAttr THEN "true" ELSE "false"))
        ELSE R(p1, img4)

\* std::string::substr(pos, n) as wxString::substr reaches it: it throws
\* std::out_of_range when pos is past the end.
SubstrThrows(str, pos) == pos > Len(str)

\* MathParser::ParseOutputLabelTag.  The length argument Length() - 2 is a
\* size_t: for a label of fewer than two characters it wraps to a count
\* that takes the rest of the string.
ParseOutputLabelTag(p, node) ==
  LET n           == Head(node)
      attrLbl     == GetAttribute(n, "userdefinedlabel", p.userDefinedLabel)
      userdefined == GetAttribute(n, "userdefined", "no")
      cell        == ParseText(p, Children(node),
                               IF userdefined # "yes" THEN "TS_LABEL" ELSE "TS_USERLABEL")
      fromValue   == userdefined = "yes" /\ attrLbl = <<>>
      value       == Head(cell).value
      throws      == fromValue /\ SubstrThrows(value, 1)
      user_lbl    == IF fromValue
                       THEN (IF Len(value) >= 2 THEN Mid(value, 1, Len(value) - 2)
                             ELSE Mid(value, 1, Len(value)))
                       ELSE attrLbl
  IN  IF throws THEN R(Fault(p, "out_of_range"), <<>>)
      ELSE R(p, ForceBreakLine(OnHeadOpt(cell, "userDefinedLabel", user_lbl)))

\* MathParser::ParseMthTag
ParseMthTag(p, node) ==
  LET r == ParseTag(p, Children(node), TRUE)
  IN  IF r.cell # <<>> THEN R(r.p, ForceBreakLine(r.cell))
      ELSE R(r.p, <<TextCell(<<" ">>, "TS_DEFAULT")>>)

\* The cell type ParseEditorTag sets for a type attribute; an unknown type
\* leaves the editor's type as constructed.
EditorTypeOf(type) ==
  CASE type = "input" -> "MC_TYPE_INPUT"
    [] type = "text" -> "MC_TYPE_TEXT"
    [] type = "title" -> "MC_TYPE_TITLE"
    [] type = "section" -> "MC_TYPE_SECTION"
    [] type = "subsection" -> "MC_TYPE_SUBSECTION"
    [] type = "subsubsection" -> "MC_TYPE_SUBSUBSECTION"
    [] type = "heading5" -> "MC_TYPE_HEADING5"
    [] type = "heading6" -> "MC_TYPE_HEADING6"
    [] OTHER -> "MC_TYPE_DEFAULT"

RECURSIVE EditorText(_, _)
\* The loop of ParseEditorTag: the contents of the <line> children, joined
\* by line feeds.
EditorText(line, text) ==
  IF line = <<>> THEN text
  ELSE IF Head(line).name = "line"
    THEN EditorText(Tail(line),
           (IF text # <<>> THEN text \o <<"NL">> ELSE text) \o GetNodeContent(Head(line)))
    ELSE EditorText(Tail(line), text)

\* MathParser::ParseEditorTag
ParseEditorTag(p, node) ==
  LET type == GetAttribute(Head(node), "type", "input")
  IN  R(p, <<[NewCell("EditorCell") EXCEPT
                !.type = EditorTypeOf(type),
                !.value = EditorText(Children(node), <<>>)]>>)

\* MathParser::ParseCommonGroupCellAttrs
ParseCommonGroupCellAttrs(node, group) ==
  IF group = <<>> \/ node = <<>> THEN group
  ELSE IF GetAttribute(Head(node), "hideToolTip", "") = "true"
    THEN OnHeadOpt(group, "suppressTooltipMarker", "true")
    ELSE group

\* A group cell of a type, as MakeOwned<GroupCell>(m_configuration, type)
\* makes it.
GroupCell(groupType) == OnHeadOpt(<<NewCell("GroupCell")>>, "groupType", groupType)

\* MathParser::GroupCellFromSubsectionTag
GroupCellFromSubsectionTag(node) ==
  LET level == GetAttribute(Head(node), "sectioning_level", "0")
      g1 == IF level = "0" \/ level = "3" THEN GroupCell("GC_TYPE_SUBSECTION") ELSE <<>>
      g2 == IF level = "4" THEN GroupCell("GC_TYPE_SUBSUBSECTION") ELSE g1
      g3 == IF level = "5" THEN GroupCell("GC_TYPE_HEADING5") ELSE g2
      g4 == IF g3 = <<>> THEN GroupCell("GC_TYPE_HEADING6") ELSE g3
  IN  ParseCommonGroupCellAttrs(node, g4)

\* MathParser::GroupCellFromImageTag
GroupCellFromImageTag(node) ==
  ParseCommonGroupCellAttrs(node, GroupCell("GC_TYPE_IMAGE"))

AnswerAttr == <<"answer1", "answer2", "answer3">>
QuestionAttr == <<"question1", "question2", "question3">>
QuestionDefault == <<"Question #1", "Question #2", "Question #3">>

RECURSIVE CodeAnswers(_, _)
\* The loop of GroupCellFromCodeTag over the attributes answer1, answer2,
\* ...: the numbers of the answers stored, those that come with a question
\* attribute marked.
CodeAnswers(n, i) ==
  IF i > Len(AnswerAttr) \/ ~HasAttribute(n, AnswerAttr[i]) THEN <<>>
  ELSE <<[answer |-> n.attrs[AnswerAttr[i]],
          question |-> IF HasAttribute(n, QuestionAttr[i])
                         THEN n.attrs[QuestionAttr[i]] ELSE QuestionDefault[i]]>>
         \o CodeAnswers(n, i + 1)

\* MathParser::GroupCellFromCodeTag
GroupCellFromCodeTag(node) ==
  LET g0 == GroupCell("GC_TYPE_CODE")
      g1 == IF GetAttribute(Head(node), "auto_answer", "no") = "yes"
              THEN OnHeadOpt(g0, "autoAnswer", "true") ELSE g0
      g2 == OnHeadOpt(g1, "answers", CodeAnswers(Head(node), 1))
  IN  ParseCommonGroupCellAttrs(node, g2)

\* The routines of the other cell types (GroupCellFromTextTag,
\* GroupCellFromTitleTag, GroupCellFromSectionTag,
\* GroupCellFromSubsubsectionTag, GroupCellHeading5Tag,
\* GroupCellHeading6Tag, GroupCellFromPagebreakTag): a group cell of the
\* type with the common group attributes applied.
GroupCellOfType(node, groupType) ==
  ParseCommonGroupCellAttrs(node, GroupCell(groupType))

\* CALL_MEMBER_FN on an entry of m_groupTags.
CallGroupRoutine(function, node) ==
  CASE function = "GroupCellFromCodeTag" -> GroupCellFromCodeTag(node)
    [] function = "GroupCellFromImageTag" -> GroupCellFromImageTag(node)
    [] function = "GroupCellFromSubsectionTag" -> GroupCellFromSubsectionTag(node)
    [] function = "GroupCellFromPagebreakTag" -> GroupCellOfType(node, "GC_TYPE_PAGEBREAK")
    [] function = "GroupCellFromTextTag" -> GroupCellOfType(node, "GC_TYPE_TEXT")
    [] function = "GroupCellFromTitleTag" -> GroupCellOfType(node, "GC_TYPE_TITLE")
    [] function = "GroupCellFromSectionTag" -> GroupCellOfType(node, "GC_TYPE_SECTION")
    [] function = "GroupCellFromSubsubsectionTag" ->
         GroupCellOfType(node, "GC_TYPE_SUBSUBSECTION")
    [] function = "GroupCellHeading5Tag" -> GroupCellOfType(node, "GC_TYPE_HEADING5")
    [] function = "GroupCellHeading6Tag" -> GroupCellOfType(node, "GC_TYPE_HEADING6")

\* GroupCell::SetEditableContent, AppendOutput, HideTree, Hide
SetEditableContent(group, text) == OnHead(group, LAMBDA c : [c EXCEPT !.value = text])
AppendOutput(group, cells) ==
  OnHead(group, LAMBDA c : SetKid(c, "output", Kid(c, "output") \o cells))
HideTree(group, tree) == OnHeadKid(group, "hiddenTree", tree)
Hide(group, hide) == OnHeadOpt(group, "hide", IF hide THEN "true" ELSE "false")

\* What the fold loop does with the fragment of one child once the fragment
\* is not null: the first fragment becomes the tree; a later one is stored
\* in the m_next of the cell `last` points to, replacing what followed that
\* cell, and `last` moves to the fragment's head.
FoldLink(f, frag) ==
  IF f.tree = <<>> THEN [f EXCEPT !.tree = frag, !.last = 1]
  ELSE [f EXCEPT !.tree = SubSeq(f.tree, 1, f.last) \o frag, !.last = f.last + 1]

RECURSIVE FoldLoop(_, _, _)
\* The loop of ParseCellTag over the children of a <fold> element.  When a
\* child parses to a null fragment the loop continues without moving to the
\* next child: it parses the same child again, for ever (hang).
FoldLoop(p, xmlcells, f) ==
  IF xmlcells = <<>> THEN [p |-> p, f |-> f]
  ELSE
    LET r == ParseTag(p, xmlcells, FALSE)
    IN  IF r.cell = <<>> THEN [p |-> [r.p EXCEPT !.hang = TRUE], f |-> f]
        ELSE FoldLoop(r.p, GetNextTag(xmlcells), FoldLink(f, r.cell))

RECURSIVE CellChildLoop(_, _, _)
\* The loop of ParseCellTag over the children of the <cell> element.
CellChildLoop(p, children, group) ==
  IF children = <<>> \/ p.hang THEN R(p, group)
  ELSE
    LET name == Head(children).name
    IN  IF name = "editor" THEN
          LET ed == ParseEditorTag(p, children)
          IN  CellChildLoop(ed.p, GetNextTag(children),
                 IF ed.cell # <<>> THEN SetEditableContent(group, Head(ed.cell).value)
                 ELSE group)
        ELSE IF name = "fold" THEN
          LET fl == FoldLoop(p, SkipWhitespaceNode(Children(children)),
                             [tree |-> <<>>, last |-> 0])
          IN  CellChildLoop(fl.p, GetNextTag(children),
                 IF fl.f.tree # <<>> THEN HideTree(group, fl.f.tree) ELSE group)
        ELSE IF name = "input" THEN
          LET r == ParseTag(p, Children(children), TRUE)
              editor == IF r.cell = <<>>
                          THEN <<[NewCell("EditorCell") EXCEPT !.value = MissingContents]>>
                          ELSE r.cell
          IN  CellChildLoop(r.p, GetNextTag(children),
                 SetEditableContent(group, Head(editor).value))
        ELSE
          LET r == ParseTag(p, children, TRUE)
          IN  CellChildLoop(r.p, GetNextTag(children),
                 AppendOutput(group, HandleNullPointer(r.cell)))

\* MathParser::ParseCellTag
ParseCellTag(p, node) ==
  LET hide     == GetAttribute(Head(node), "hide", "false") = "true"
      type     == GetAttribute(Head(node), "type", "text")
      function == TableGet(p.groupTags, type)
      p1       == [p EXCEPT !.groupTags = TableAfterGet(p.groupTags, type)]
  IN  IF function = "null" THEN R(p1, <<>>)
      ELSE
        LET r == CellChildLoop(p1, SkipWhitespaceNode(Children(node)),
                               CallGroupRoutine(function, node))
        IN  R(r.p, Hide(r.cell, hide))

\* MathParser::ParseFracTag
ParseFracTag(p, node) ==
  LET n      == Head(node)
      frac0  == SetHighlight(OnHeadOpt(<<NewCell("FracCell")>>, "fracStyle", p.FracStyle),
                             p.highlight)
      child1 == SkipWhitespaceNode(Children(node))
      r1     == ParseTag(p, child1, FALSE)
      frac1  == OnHeadKid(frac0, "num", HandleNullPointer(r1.cell))
      child2 == GetNextTag(child1)
      r2     == ParseTag(r1.p, child2, FALSE)
      frac2  == OnHeadKid(frac1, "denom", HandleNullPointer(r2.cell))
      frac3  == IF GetAttribute(n, "line", "") = "no"
                  THEN OnHeadOpt(frac2, "fracStyle", "FC_CHOOSE") ELSE frac2
      frac4  == IF GetAttribute(n, "diffstyle", "") = "yes"
                  THEN OnHeadOpt(frac3, "fracStyle", "FC_DIFF") ELSE frac3
      frac5  == SetStyle(SetType(frac4, r2.p.ParserStyle), "TS_VARIABLE")
  IN  R(r2.p, ParseCommonAttrs(node, frac5))

\* MathParser::ParseDiffTag
ParseDiffTag(p, node) ==
  LET diff0 == <<NewCell("DiffCell")>>
      child == SkipWhitespaceNode(Children(node))
  IN  IF child # <<>> THEN
        LET fc    == p.FracStyle
            r1    == ParseTag([p EXCEPT !.FracStyle = "FC_DIFF"], child, FALSE)
            diff1 == OnHeadKid(diff0, "diff", HandleNullPointer(r1.cell))
            p1    == [r1.p EXCEPT !.FracStyle = fc]
            r2    == ParseTag(p1, GetNextTag(child), TRUE)
            diff2 == OnHeadKid(diff1, "base", HandleNullPointer(r2.cell))
            diff3 == SetStyle(SetType(diff2, r2.p.ParserStyle), "TS_VARIABLE")
        IN  R(r2.p, ParseCommonAttrs(node, diff3))
      ELSE R(p, ParseCommonAttrs(node, diff0))

\* MathParser::ParseSupTag.  base->ToString() and power->ToString() are
\* evaluated whatever the attributes are.
ParseSupTag(p, node) ==
  LET n      == Head(node)
      expt0  == IF DOMAIN n.attrs # {} THEN OnHeadOpt(<<NewCell("ExptCell")>>, "isMatrix", "true")
                ELSE <<NewCell("ExptCell")>>
      child1 == SkipWhitespaceNode(Children(node))
      r1     == ParseTag(p, child1, FALSE)
      base   == HandleNullPointer(r1.cell)
      expt1  == OnHeadKid(expt0, "base", base)
      r2     == ParseTag(r1.p, GetNextTag(child1), FALSE)
      power  == SetExponentFlag(HandleNullPointer(r2.cell))
      expt2  == SetStyle(SetType(expt1, r2.p.ParserStyle), "TS_VARIABLE")
      expt3  == ParseCommonAttrs(node, OnHeadKid(expt2, "power", power))
      p3     == IF ToStringDerefsNull(<<Head(base)>>) \/ ToStringDerefsNull(<<Head(power)>>)
                  THEN Fault(r2.p, "null_deref") ELSE r2.p
  IN  IF GetAttribute(n, "mat", "false") = "true"
        THEN R(p3, SetAltCopyText(expt3,
                 Cell_ToString(Head(base)) \o <<"^", "^">> \o Cell_ToString(Head(power))))
        ELSE R(p3, expt3)

RECURSIVE SubSupPosLoop(_, _, _)
\* The loop of ParseSubSupTag over the children that carry a pos attribute.
SubSupPosLoop(p, child, subsup) ==
  IF child = <<>> THEN R(p, subsup)
  ELSE
    LET pos  == GetAttribute(Head(child), "pos", "")
        r    == ParseTag(p, child, FALSE)
        cell == HandleNullPointer(r.cell)
        next == GetNextTag(SkipWhitespaceNode(child))
    IN  SubSupPosLoop(r.p, next,
          CASE pos = "presub" -> SubSupCell_SetPreSub(subsup, cell)
            [] pos = "presup" -> SubSupCell_SetPreSup(subsup, cell)
            [] pos = "postsup" -> SubSupCell_SetPostSup(subsup, cell)
            [] pos = "postsub" -> SubSupCell_SetPostSub(subsup, cell)
            [] OTHER -> subsup)

\* MathParser::ParseSubSupTag
ParseSubSupTag(p, node) ==
  LET child1  == SkipWhitespaceNode(Children(node))
      r1      == ParseTag(p, child1, FALSE)
      subsup1 == SubSupCell_SetBase(SubSupCell_New, HandleNullPointer(r1.cell))
      child2  == GetNextTag(child1)
  IN  IF child2 # <<>> /\ GetAttribute(Head(child2), "pos", "") # ""
        THEN SubSupPosLoop(r1.p, child2, subsup1)
        ELSE
          LET r2      == ParseTag(r1.p, child2, FALSE)
              subsup2 == SubSupCell_SetIndex(subsup1,
                           SetExponentFlag(HandleNullPointer(r2.cell)))
              r3      == ParseTag(r2.p, GetNextTag(child2), FALSE)
              subsup3 == SubSupCell_SetExponent(subsup2,
                           SetExponentFlag(HandleNullPointer(r3.cell)))
              subsup4 == SetStyle(SetType(subsup3, r3.p.ParserStyle), "TS_VARIABLE")
          IN  R(r3.p, ParseCommonAttrs(node, subsup4))

RECURSIVE MmultiscriptsLoop(_, _, _, _, _)
\* The loop of ParseMmultiscriptsTag over the scripts.
MmultiscriptsLoop(p, child, subsup, pre, subscript) ==
  IF child = <<>> THEN R(p, subsup)
  ELSE IF Head(child).name = "mprescripts"
    THEN MmultiscriptsLoop(p, GetNextTag(child), subsup, TRUE, TRUE)
  ELSE
    LET isNone == Head(child).name = "none"
        r      == IF isNone THEN R(p, <<>>) ELSE ParseTag(p, child, FALSE)
        s1     == IF isNone THEN subsup
                  ELSE IF pre /\ subscript THEN SubSupCell_SetPreSub(subsup, r.cell)
                  ELSE IF pre /\ ~subscript THEN SubSupCell_SetPreSup(subsup, r.cell)
                  ELSE IF ~pre /\ subscript THEN SubSupCell_SetPostSub(subsup, r.cell)
                  ELSE SubSupCell_SetPostSup(subsup, r.cell)
    IN  MmultiscriptsLoop(r.p, GetNextTag(SkipWhitespaceNode(child)), s1, pre, ~subscript)

\* MathParser::ParseMmultiscriptsTag
ParseMmultiscriptsTag(p, node) ==
  LET child1 == SkipWhitespaceNode(Children(node))
      r1     == ParseTag(p, child1, FALSE)
      subsup == SubSupCell_SetBase(SubSupCell_New, HandleNullPointer(r1.cell))
  IN  MmultiscriptsLoop(r1.p, GetNextTag(child1), subsup, FALSE, TRUE)

\* The routines that fill two positions, base and index, from the first
\* two children.
ParseBaseIndex(p, node, class, exponentFlag, highlight) ==
  LET child1 == SkipWhitespaceNode(Children(node))
      r1     == ParseTag(p, child1, FALSE)
      c1     == OnHeadKid(<<NewCell(class)>>, "base", HandleNullPointer(r1.cell))
      c2     == IF highlight THEN SetHighlight(c1, r1.p.highlight) ELSE c1
      r2     == ParseTag(r1.p, GetNextTag(child1), FALSE)
      index  == IF exponentFlag THEN SetExponentFlag(HandleNullPointer(r2.cell))
                ELSE HandleNullPointer(r2.cell)
      c3     == OnHeadKid(c2, "index", index)
      c4     == SetStyle(SetType(c3, r2.p.ParserStyle), "TS_VARIABLE")
  IN  R(r2.p, ParseCommonAttrs(node, c4))

\* MathParser::ParseSubTag
ParseSubTag(p, node) == ParseBaseIndex(p, node, "SubCell", TRUE, FALSE)

\* MathParser::ParseAtTag
ParseAtTag(p, node) == ParseBaseIndex(p, node, "AtCell", FALSE, TRUE)

\* MathParser::ParseFunTag
ParseFunTag(p, node) ==
  LET child1 == SkipWhitespaceNode(Children(node))
      r1     == ParseTag(p, child1, FALSE)
      fun1   == FunCell_SetName(FunCell_New(TRUE), HandleNullPointer(r1.cell))
      fun2   == SetStyle(SetType(fun1, r1.p.ParserStyle), "TS_FUNCTION")
      r2     == ParseTag(r1.p, GetNextTag(child1), FALSE)
      fun3   == ParseCommonAttrs(node, FunCell_SetArg(fun2, HandleNullPointer(r2.cell)))
      p3     == IF ToStringDerefsNull(fun3) THEN Fault(r2.p, "null_deref") ELSE r2.p
  IN  IF Contains(Cell_ToString(Head(fun3)), <<")", "(">>)
        THEN R(p3, SetToolTip(fun3, "a multiplication sign (*) is missing here"))
        ELSE R(p3, fun3)

\* wxString::Format("%c", code) for the codes the model uses.
CharOfCode(str) ==
  IF str = <<"6", "5">> THEN <<"A">>
  ELSE IF str = <<"4", "5">> THEN <<"-">>
  ELSE str

\* MathParser::ParseCharCode
ParseCharCode(p, node) ==
  LET cell0 == <<NewCell("TextCell")>>
      str   == IF node # <<>> THEN Head(node).content ELSE <<>>
      cell1 == IF str # <<>>
                 THEN <<[Head(cell0) EXCEPT !.value = CharOfCode(str),
                                            !.type = p.ParserStyle,
                                            !.style = "TS_DEFAULT",
                                            !.highlight = p.highlight]>>
                 ELSE cell0
  IN  R(p, ParseCommonAttrs(node, cell1))

\* The routines that wrap all the children in one cell: ParseSqrtTag,
\* ParseAbsTag, ParseConjugateTag.
ParseInner(p, node, class) ==
  LET child == SkipWhitespaceNode(Children(node))
      r     == ParseTag(p, child, TRUE)
      c1    == OnHeadKid(<<NewCell(class)>>, "inner", HandleNullPointer(r.cell))
      c2    == SetHighlight(SetStyle(SetType(c1, r.p.ParserStyle), "TS_VARIABLE"),
                            r.p.highlight)
  IN  R(r.p, ParseCommonAttrs(node, c2))

\* MathParser::ParseSqrtTag, ParseAbsTag, ParseConjugateTag
ParseSqrtTag(p, node) == ParseInner(p, node, "SqrtCell")
ParseAbsTag(p, node) == ParseInner(p, node, "AbsCell")
ParseConjugateTag(p, node) == ParseInner(p, node, "ConjugateCell")

\* MathParser::ParseParenTag: a null inner cell is legal here.
ParseParenTag(p, node) ==
  LET child == SkipWhitespaceNode(Children(node))
      r     == ParseTag(p, child, TRUE)
      c1    == SetType(OnHeadKid(<<NewCell("ParenCell")>>, "inner", r.cell), r.p.ParserStyle)
      c2    == SetStyle(SetHighlight(c1, r.p.highlight), "TS_VARIABLE")
      c3    == IF DOMAIN Head(node).attrs # {} THEN OnHeadOpt(c2, "print", "false") ELSE c2
  IN  R(r.p, ParseCommonAttrs(node, c3))

\* MathParser::ParseLimitTag
ParseLimitTag(p, node) ==
  LET child1 == SkipWhitespaceNode(Children(node))
      r1     == ParseTag(p, child1, FALSE)
      lim1   == LimitCell_SetName(LimitCell_New(TRUE), HandleNullPointer(r1.cell))
      child2 == GetNextTag(child1)
      r2     == ParseTag(r1.p, child2, FALSE)
      lim2   == LimitCell_SetUnder(lim1, HandleNullPointer(r2.cell))
      r3     == ParseTag(r2.p, GetNextTag(child2), FALSE)
      lim3   == LimitCell_SetBase(lim2, HandleNullPointer(r3.cell))
      lim4   == SetStyle(SetType(lim3, r3.p.ParserStyle), "TS_VARIABLE")
  IN  R(r3.p, ParseCommonAttrs(node, lim4))

\* MathParser::ParseSumTag
ParseSumTag(p, node) ==
  LET type   == GetAttribute(Head(node), "type", "sum")
      sum0   == IF type = "prod" THEN OnHeadOpt(<<NewCell("SumCell")>>, "sumStyle", "SM_PROD")
                ELSE <<NewCell("SumCell")>>
      child1 == SkipWhitespaceNode(Children(node))
      r1     == ParseTag(p, child1, FALSE)
      sum1   == OnHeadKid(SetHighlight(sum0, p.highlight), "under", HandleNullPointer(r1.cell))
      child2 == GetNextTag(child1)
      r2     == IF type # "lsum" THEN ParseTag(r1.p, child2, FALSE) ELSE R(r1.p, <<>>)
      sum2   == IF type # "lsum" THEN OnHeadKid(sum1, "over", HandleNullPointer(r2.cell))
                ELSE sum1
      r3     == ParseTag(r2.p, GetNextTag(child2), FALSE)
      sum3   == OnHeadKid(sum2, "base", HandleNullPointer(r3.cell))
      sum4   == SetStyle(SetType(sum3, r3.p.ParserStyle), "TS_VARIABLE")
  IN  R(r3.p, ParseCommonAttrs(node, sum4))

\* MathParser::ParseIntTag
ParseIntTag(p, node) ==
  LET in0    == SetHighlight(<<NewCell("IntCell")>>, p.highlight)
      child1 == SkipWhitespaceNode(Children(node))
  IN  IF GetAttribute(Head(node), "def", "true") # "true" THEN
        LET r1  == ParseTag(p, child1, FALSE)
            in1 == OnHeadKid(in0, "base", HandleNullPointer(r1.cell))
            r2  == ParseTag(r1.p, GetNextTag(child1), TRUE)
            in2 == OnHeadKid(in1, "var", HandleNullPointer(r2.cell))
            in3 == SetStyle(SetType(in2, r2.p.ParserStyle), "TS_VARIABLE")
        IN  R(r2.p, ParseCommonAttrs(node, in3))
      ELSE
        LET r1     == ParseTag(p, child1, FALSE)
            in1    == OnHeadKid(OnHeadOpt(in0, "intStyle", "INT_DEF"), "under",
                                HandleNullPointer(r1.cell))
            child2 == GetNextTag(child1)
            r2     == ParseTag(r1.p, child2, FALSE)
            in2    == OnHeadKid(in1, "over", HandleNullPointer(r2.cell))
            child3 == GetNextTag(child2)
            r3     == ParseTag(r2.p, child3, FALSE)
            in3    == OnHeadKid(in2, "base", HandleNullPointer(r3.cell))
            r4     == ParseTag(r3.p, GetNextTag(child3), TRUE)
            in4    == OnHeadKid(in3, "var", HandleNullPointer(r4.cell))
            in5    == SetStyle(SetType(in4, r4.p.ParserStyle), "TS_VARIABLE")
        IN  R(r4.p, ParseCommonAttrs(node, in5))

RECURSIVE TableCells(_, _, _)
\* The inner loop of ParseTableTag: the cells of one row.
TableCells(p, cells, row) ==
  IF cells = <<>> THEN [p |-> p, row |-> row]
  ELSE
    LET r == ParseTag(p, cells, FALSE)
    IN  TableCells(r.p, GetNextTag(cells), Append(row, HandleNullPointer(r.cell)))

RECURSIVE TableRows(_, _, _)
\* The outer loop of ParseTableTag: the rows.
TableRows(p, rows, matrix) ==
  IF rows = <<>> THEN [p |-> p, matrix |-> matrix]
  ELSE
    LET rc == TableCells(p, SkipWhitespaceNode(Children(rows)), <<>>)
    IN  TableRows(rc.p, GetNextTag(rows), Append(matrix, rc.row))

\* MathParser::ParseTableTag
ParseTableTag(p, node) ==
  LET n    == Head(node)
      flag(c, attr, opt) ==
        IF GetAttribute(n, attr, "false") = "true" THEN OnHeadOpt(c, opt, "true") ELSE c
      m0   == SetHighlight(<<NewCell("MatrCell")>>, p.highlight)
      m1   == flag(m0, "special", "special")
      m2   == flag(flag(m1, "inference", "inference"), "inference", "special")
      m3   == flag(flag(flag(m2, "colnames", "colNames"), "rownames", "rowNames"),
                   "roundedParens", "roundedParens")
      rows == TableRows(p, SkipWhitespaceNode(Children(node)), <<>>)
      m4   == OnHeadOpt(m3, "rows", rows.matrix)
      m5   == SetStyle(SetType(m4, rows.p.ParserStyle), "TS_VARIABLE")
  IN  R(rows.p, ParseCommonAttrs(node, m5))

\* CALL_MEMBER_FN on an entry of m_innerTags.
CallRoutine(p, function, node) ==
  CASE function = "ParseVariableNameTag" -> ParseStyledTextTag(p, node, "TS_VARIABLE")
    [] function = "ParseOperatorNameTag" -> ParseStyledTextTag(p, node, "TS_FUNCTION")
    [] function = "ParseNumberTag" -> ParseStyledTextTag(p, node, "TS_NUMBER")
    [] function = "ParseGreekTag" -> ParseStyledTextTag(p, node, "TS_GREEK_CONSTANT")
    [] function = "ParseSpecialConstantTag" ->
         ParseStyledTextTag(p, node, "TS_SPECIAL_CONSTANT")
    [] function = "ParseFunctionNameTag" -> ParseStyledTextTag(p, node, "TS_FUNCTION")
    [] function = "ParseStringTag" -> ParseStyledTextTag(p, node, "TS_STRING")
    [] function = "ParseSpaceTag" -> ParseSpaceTag(p, node)
    [] function = "ParseMiscTextTag" -> ParseMiscTextTag(p, node)
    [] function = "ParseParenTag" -> ParseParenTag(p, node)
    [] function = "ParseFracTag" -> ParseFracTag(p, node)
    [] function = "ParseSupTag" -> ParseSupTag(p, node)
    [] function = "ParseSubTag" -> ParseSubTag(p, node)
    [] function = "ParseFunTag" -> ParseFunTag(p, node)
    [] function = "ParseSqrtTag" -> ParseSqrtTag(p, node)
    [] function = "ParseDiffTag" -> ParseDiffTag(p, node)
    [] function = "ParseSumTag" -> ParseSumTag(p, node)
    [] function = "ParseIntTag" -> ParseIntTag(p, node)
    [] function = "ParseAtTag" -> ParseAtTag(p, node)
    [] function = "ParseAbsTag" -> ParseAbsTag(p, node)
    [] function = "ParseConjugateTag" -> ParseConjugateTag(p, node)
    [] function = "ParseSubSupTag" -> ParseSubSupTag(p, node)
    [] function = "ParseMmultiscriptsTag" -> ParseMmultiscriptsTag(p, node)
    [] function = "ParseLimitTag" -> ParseLimitTag(p, node)
    [] function = "ParseTagContents" -> ParseTagContents(p, node)
    [] function = "ParseTableTag" -> ParseTableTag(p, node)
    [] function = "ParseMthTag" -> ParseMthTag(p, node)
    [] function = "ParseOutputLabelTag" -> ParseOutputLabelTag(p, node)
    [] function = "ParseHighlightTag" -> ParseHighlightTag(p, node)
    [] function = "ParseHiddenOperatorTag" -> ParseHiddenOperatorTag(p, node)
    [] function = "ParseImageTag" -> ParseImageTag(p, node)
    [] function = "ParseSlideshowTag" -> ParseSlideshowTag(p, node)
    [] function = "ParseEditorTag" -> ParseEditorTag(p, node)
    [] function = "ParseCellTag" -> ParseCellTag(p, node)
    [] function = "ParseCharCode" -> ParseCharCode(p, node)

\* ------------------------------------------------------------------------
\* MathParser::ParseTag
\* ------------------------------------------------------------------------

\* The loop variables of ParseTag: retval and ownedCell are the two chains
\* the function owns; the raw pointer `cell` is null (at = 0) or refers to
\* the cell at position `at` of retval (in = "ret") or of ownedCell
\* (in = "own"); made counts the fragments the nodes produced.
LoopStart == [retval |-> <<>>, owned |-> <<>>, in |-> "own", at |-> 0]

\* cell->AppendCell(more), cell not null.
LoopAppend(st, more) ==
  IF st.in = "ret" THEN [st EXCEPT !.retval = AppendCell(st.retval, more)]
  ELSE [st EXCEPT !.owned = AppendCell(st.owned, more)]

\* Lines 1039-1050: what ParseTag does with the fragment tmp of an element.
LoopElement(st, node, tmp) ==
  IF tmp = <<>> THEN
    LET t == ParseCommonAttrs(node, tmp)
    IN  IF st.at = 0
          THEN [st EXCEPT !.owned = t, !.in = "own", !.at = IF t = <<>> THEN 0 ELSE 1]
          ELSE LoopAppend(st, t)
  ELSE st

\* Lines 1054-1061: what ParseTag does with a text node.
LoopText(st, text) ==
  IF st.at = 0 THEN [st EXCEPT !.owned = text, !.in = "own", !.at = 1]
  ELSE LoopAppend(st, text)

\* Lines 1064-1074: the first cell found becomes the return value; from
\* then on `cell` moves to its m_next once per node.
LoopAdvance(st) ==
  IF st.at # 0 THEN
    IF st.retval = <<>>
      THEN [st EXCEPT !.retval = st.owned, !.owned = <<>>, !.in = "ret"]
      ELSE LET chain == IF st.in = "ret" THEN st.retval ELSE st.owned
           IN  [st EXCEPT !.at = IF st.at < Len(chain) THEN st.at + 1 ELSE 0]
  ELSE st

\* Lines 1075-1089: the warning.  The branch is entered with `cell` null, so
\* the name it would show is empty and no message box is opened.
LoopWarns(st, warning, all) ==
  LET name == IF st.at # 0 THEN <<"?">> ELSE <<>>
  IN  st.at = 0 /\ warning /\ ~all /\ Len(name) # 0

RECURSIVE ParseTagLoop(_, _, _, _, _)

\* Lines 1064-1095, the node having left the loop variables as st and
\* `warns` telling whether the message box was opened: the warning is
\* counted, `cell` advances, and the loop goes on to the next tag unless
\* only one node was asked for.
LoopNext(p, node, all, warning, st, warns) ==
  IF all
    THEN ParseTagLoop(IF warns THEN [p EXCEPT !.warnings = @ + 1] ELSE p,
                      GetNextTag(node), all, warning /\ ~warns, LoopAdvance(st))
    ELSE R(IF warns THEN [p EXCEPT !.warnings = @ + 1] ELSE p, LoopAdvance(st).retval)

\* Lines 1064-1095 after a node that left the loop variables as st.
LoopAfterNode(p, node, all, warning, st) ==
  LoopNext(p, node, all, warning, st, LoopWarns(st, warning, all))

\* Lines 1039-1095 for an element whose fragment is r.cell.
LoopAfterFragment(node, all, warning, st, r) ==
  LoopAfterNode(r.p, node, all, warning, LoopElement(st, node, r.cell))

\* Lines 1036-1095 for an element whose routine, if it has one, returned r:
\* with no fragment from a routine the children are parsed instead.
LoopAfterRoutine(node, all, warning, st, r) ==
  IF r.cell = <<>> /\ Head(node).children # <<>>
    THEN LoopAfterFragment(node, all, warning, st,
                           ParseTag(r.p, Head(node).children, TRUE))
    ELSE LoopAfterFragment(node, all, warning, st, r)

\* Lines 1032-1095 for an element: m_innerTags[tagName] inserts the name
\* into the table when it is not there.
LoopAfterLookup(p, node, all, warning, st, function) ==
  LoopAfterRoutine(node, all, warning, st,
                   IF function # "null" THEN CallRoutine(p, function, node)
                   ELSE R(p, <<>>))

\* The loop of ParseTag, lines 1022-1095.
ParseTagLoop(p, node, all, warning, st) ==
  IF node = <<>> THEN R(p, st.retval)
  ELSE IF Head(node).kind = "element"
    THEN LoopAfterLookup([p EXCEPT !.innerTags = TableAfterGet(p.innerTags, Head(node).name)],
                         node, all, warning, st,
                         TableGet(p.innerTags, Head(node).name))
    ELSE LoopAfterNode(p, node, all, warning,
                       LoopText(st, ParseText(p, node, "TS_DEFAULT")))

\* MathParser::ParseTag
ParseTag(p, node, all) ==
  ParseTagLoop(p, SkipWhitespaceNode(node), all, all, LoopStart)

\* ------------------------------------------------------------------------
\* MathParser::ParseLine
\* ------------------------------------------------------------------------

\* The switch on Configuration::ShowLength(): the length from which on an
\* expression is not displayed (0: no limit).
ShowLengthOf(setting) ==
  CASE setting = 0 -> 6000
    [] setting = 1 -> 20000
    [] setting = 2 -> 250000
    [] setting = 3 -> 0
    [] OTHER -> 50000

\* A length test that also refuses a string one character short of the limit.
LineIsParsedBelowLimit(length, showLength) == (length + 1 < showLength) \/ (showLength = 0)

\* The condition under which ParseLine hands the string to the XML library.
LineIsParsed(length, showLength) == (length < showLength) \/ (showLength = 0)

LongExpressionText ==
  <<"(", "E", "x", "p", "r", "e", "s", "s", "i", "o", "n", " ", "l", "o",
    "n", "g", "e", "r", " ", "t", "h", "a", "n", " ", "a", "l", "l", "o",
    "w", "e", "d", " ", "b", "y", " ", "t", "h", "e", " ", "c", "o", "n",
    "f", "i", "g", "u", "r", "a", "t", "i", "o", "n", " ", "s", "e", "t",
    "t", "i", "n", "g", ")">>

LongExpressionToolTip ==
  "The maximum size of the expressions wxMaxima is allowed to display can be changed in the configuration dialogue."

\* MathParser::ParseLine.  The string s is given by its length and by the
\* document wxXmlDocument::Load makes of it (root, no node if the string is
\* not XML); m_graphRegex replaces each control character by one character
\* and leaves the length alone.
ParseLine(p, s, style) ==
  LET p1 == [p EXCEPT !.ParserStyle = style, !.FracStyle = "FC_NORMAL",
                      !.highlight = FALSE]
      showLength == ShowLengthOf(p.env.showLength)
  IN  IF LineIsParsed(s.length, showLength) THEN
        LET p2 == [p1 EXCEPT !.loads = @ + 1]
        IN  IF s.root # <<>> THEN ParseTag(p2, Head(s.root).children, TRUE)
            ELSE R(p2, <<>>)
      ELSE R(p1, ForceBreakLine(SetToolTip(<<TextCell(LongExpressionText, "TS_WARNING")>>,
                                           LongExpressionToolTip)))

\* ------------------------------------------------------------------------
\* The documents the parser is run on
\* ------------------------------------------------------------------------

\* <v>x</v>, <n>0</n> and <fnm>f</fnm>
VarX == Elem("v", NoAttrs, <<Text(<<"x">>)>>)
NumZero == Elem("n", NoAttrs, <<Text(<<"0">>)>>)
NameF == Elem("fnm", NoAttrs, <<Text(<<"f">>)>>)
Row(children) == Elem("r", NoAttrs, children)

\* The children a minimal well-formed element of a registered tag has.
MinimalChildren(tag) ==
  CASE tag \in {"v", "mi", "mo", "t", "n", "mn", "g", "s", "fnm", "st", "h", "lbl"} ->
         <<Text(<<"x">>)>>
    [] tag = "ascii" -> <<Text(<<"6", "5">>)>>
    [] tag = "mspace" -> <<>>
    [] tag \in {"p", "q", "a", "cj", "r", "mrow", "mth", "line", "hl"} -> <<VarX>>
    [] tag \in {"f", "mfrac", "e", "msup", "i", "munder", "d", "at"} -> <<VarX, NumZero>>
    [] tag = "fn" -> <<Row(<<NameF>>), Elem("p", NoAttrs, <<VarX>>)>>
    [] tag \in {"ie", "mmultiscripts"} -> <<VarX, NumZero, NumZero>>
    [] tag = "lm" -> <<NameF, Row(<<VarX>>), Row(<<NumZero>>)>>
    [] tag \in {"sm", "in"} -> <<Row(<<NumZero>>), Row(<<NumZero>>), Row(<<VarX>>), Row(<<VarX>>)>>
    [] tag = "tb" -> <<Elem("mtr", NoAttrs, <<Elem("mtd", NoAttrs, <<VarX>>)>>)>>
    [] tag \in {"img", "slide"} -> <<Text(<<"a", ".", "p", "n", "g">>)>>
    [] tag = "editor" -> <<Elem("line", NoAttrs, <<Text(<<"x">>)>>)>>
    [] tag = "cell" -> <<Elem("input", NoAttrs,
                              <<Elem("editor", ("type" :> "input"),
                                     <<Elem("line", NoAttrs, <<Text(<<"x">>)>>)>>)>>)>>

MinimalAttrs(tag) ==
  CASE tag = "cell" -> ("type" :> "code")
    [] tag = "editor" -> ("type" :> "input")
    [] OTHER -> NoAttrs

\* A minimal well-formed element of a registered tag, as a node pointer.
MinimalElement(tag) == <<Elem(tag, MinimalAttrs(tag), MinimalChildren(tag))>>

\* An element of a tag no table knows, around the given children.
Bogus(children) == <<Elem("bogus", NoAttrs, children)>>

Hello == Text(<<"h", "e", "l", "l", "o">>)

\* <lbl userdefined="yes">label</lbl> without a userdefinedlabel attribute
UserLabel(label) ==
  <<Elem("lbl", ("userdefined" :> "yes"),
         IF label = <<>> THEN <<>> ELSE <<Text(label)>>)>>

\* A code cell whose <fold> holds the given cells.
FoldedCell(cells) ==
  <<Elem("cell", ("type" :> "code"), <<Elem("fold", NoAttrs, cells)>>)>>

\* <cell type="text"/>
TextGroup == Elem("cell", ("type" :> "text"), <<>>)

\* breakline="true" tooltip="tip" altCopy="c"
CommonAttrs ==
  ("breakline" :> "true") @@ ("tooltip" :> "tip") @@ ("altCopy" :> <<"c">>)

\* An <ie> whose scripts carry pos attributes.
PosScripts ==
  <<VarX, Elem("r", ("pos" :> "presub"), <<NumZero>>),
    Elem("r", ("pos" :> "postsup"), <<NumZero>>)>>

\* The node pointers ParseTag is called with: a minimal element of every
\* registered tag, unknown elements, text, sibling chains, and elements
\* that lack what a routine reads.
TagInputs ==
  {MinimalElement(tag) : tag \in DOMAIN InnerTagsInit}
  \cup {Bogus(<<VarX>>), Bogus(<<Hello>>), Bogus(<<>>),
        <<Hello>>, <<Hello, VarX, Hello>>, <<VarX, NumZero>>, <<>>,
        <<Elem("img", NoAttrs, <<>>)>>, <<Elem("slide", NoAttrs, <<>>)>>,
        UserLabel(<<>>), UserLabel(<<"a">>), UserLabel(<<"(", "a", ")">>),
        FoldedCell(<<TextGroup>>), FoldedCell(<<TextGroup, TextGroup>>),
        <<Elem("bogus", NoAttrs, <<>>), Elem("bogus", NoAttrs, <<>>)>>,
        <<Hello, Elem("bogus", NoAttrs, <<>>), Hello>>,
        <<Elem("ie", CommonAttrs, MinimalChildren("ie"))>>,
        <<Elem("ie", CommonAttrs, PosScripts)>>,
        <<Elem("mmultiscripts", CommonAttrs, MinimalChildren("mmultiscripts"))>>,
        <<Elem("fn", CommonAttrs, MinimalChildren("fn"))>>,
        <<Elem("cell", ("type" :> "chapter"), <<>>)>>}

\* The lengths of the strings ParseLine is called with: short ones, and the
\* lengths just below and at each threshold.
LineLengths == {20, 5999, 6000, 19999, 20000, 49999, 50000, 249999, 250000, 300000}

\* What wxXmlDocument::Load makes of the strings: no root for a string that
\* is not XML, else the root element.
LineRoots ==
  {<<>>,
   <<Elem("mth", NoAttrs, <<Hello>>)>>,
   <<Elem("mth", NoAttrs, <<VarX>>)>>,
   <<Elem("mth", NoAttrs, <<Hello, Elem("fn", NoAttrs, MinimalChildren("fn"))>>)>>,
   <<Elem("mth", NoAttrs,
          <<Elem("hl", NoAttrs, <<Elem("hl", NoAttrs, <<Hello>>), Hello>>),
            Elem("d", NoAttrs, <<VarX, VarX>>), Hello>>)>>}

LineStyles == {"MC_TYPE_DEFAULT", "MC_TYPE_INPUT"}

\* What an unchecked read through a null pointer does: the process is
\* stopped, or the read goes on and yields an empty or an arbitrary string.
NullReadOutcomes == {"crash", "empty", "junk"}
Garbage(outcome) == IF outcome = "junk" THEN <<"?", ";">> ELSE <<>>

\* ------------------------------------------------------------------------
\* The parser as a state machine
\* ------------------------------------------------------------------------

VARIABLES
  tables,       \* the static dispatch tables m_innerTags and m_groupTags
  parser,       \* the members of the MathParser object
  showLength,   \* Configuration::ShowLength()
  call,         \* the last call of ParseLine or ParseTag and what it gave
  alive,        \* FALSE once a call has faulted or does not return
  obj,          \* a FunCell, LimitCell or SubSupCell object and its links
  ret,          \* the last operation on the object and what it returned
  render        \* the last rendering computed and what it was computed from

vars == <<tables, parser, showLength, call, alive, obj, ret, render>>
parserVars == <<tables, parser, showLength, call, alive>>
cellVars == <<obj, ret>>

NoObject == [cell |-> NewCell("none")]
NoRet ==
  [op |-> "none", n |-> 0, value |-> FALSE, arg |-> <<>>, font |-> 0, measured |-> 0]
NoRender == [op |-> "none", done |-> FALSE, input |-> <<>>, out |-> <<>>]

NoCall ==
  [op |-> "none", node |-> <<>>, all |-> TRUE, length |-> 0, style |-> "",
   setting |-> 0, cell |-> <<>>, loads |-> 0, warnings |-> 0, fault |-> "",
   hang |-> FALSE]

\* The members without the tables, which live in `tables`.
Members(p) ==
  [ParserStyle |-> p.ParserStyle, FracStyle |-> p.FracStyle, highlight |-> p.highlight,
   userDefinedLabel |-> p.userDefinedLabel, zip |-> p.zip]

WithTables(m) ==
  [innerTags |-> tables.inner, groupTags |-> tables.group,
   ParserStyle |-> m.ParserStyle, FracStyle |-> m.FracStyle, highlight |-> m.highlight,
   userDefinedLabel |-> m.userDefinedLabel, zip |-> m.zip]

Init ==
  /\ tables = [inner |-> InnerTagsInit, group |-> GroupTagsInit]
  /\ parser = Members(NewParser(<<>>, <<>>, FALSE))
  /\ showLength = 0
  /\ call = NoCall
  /\ alive = TRUE
  /\ obj = NoObject /\ ret = NoRet /\ render = NoRender

\* MathParser::MathParser: another parser object is constructed.
Construct ==
  /\ alive
  /\ \E zip \in BOOLEAN :
       LET p == NewParser(tables.inner, tables.group, zip)
       IN  /\ parser' = Members(p)
           /\ tables' = [inner |-> p.innerTags, group |-> p.groupTags]
  /\ UNCHANGED <<showLength, call, alive, obj, ret, render>>

\* The user changes the configuration's length setting.
SetShowLength ==
  /\ alive
  /\ \E setting \in 0 .. 4 : showLength' = setting
  /\ UNCHANGED <<tables, parser, call, alive, obj, ret, render>>

\* The state after a call that gave r.  A call that throws or loops for ever
\* does not return; one that read through a null pointer returns only when
\* the read went on.
Returned(op, node, all, length, style, r, crash) ==
  LET stops == r.p.hang \/ r.p.fault = "out_of_range" \/ (r.p.fault # "" /\ crash)
  IN  /\ tables' = [inner |-> r.p.innerTags, group |-> r.p.groupTags]
      /\ parser' = Members(r.p)
      /\ call' = [op |-> op, node |-> node, all |-> all, length |-> length,
                  style |-> style, setting |-> showLength,
                  cell |-> IF stops THEN <<>> ELSE r.cell,
                  loads |-> r.p.loads, warnings |-> r.p.warnings,
                  fault |-> r.p.fault, hang |-> r.p.hang]
      /\ alive' = ~stops
      /\ UNCHANGED <<showLength, obj, ret, render>>

Environment(garbage, imageCount, inWorkDir) ==
  [garbage |-> garbage, imageCount |-> imageCount, inWorkDir |-> inWorkDir,
   showLength |-> showLength]

\* A call of MathParser::ParseTag(node, all)
DoParseTag ==
  /\ alive
  /\ \E node \in TagInputs, all \in BOOLEAN, outcome \in NullReadOutcomes :
       Returned("ParseTag", node, all, 0, parser.ParserStyle,
                ParseTag(InCall(WithTables(parser),
                                Environment(Garbage(outcome), 1, FALSE)), node, all),
                outcome = "crash")

\* A call of MathParser::ParseLine(s, style)
DoParseLine ==
  /\ alive
  /\ \E length \in LineLengths, root \in LineRoots, style \in LineStyles :
       Returned("ParseLine", root, TRUE, length, style,
                ParseLine(InCall(WithTables(parser), Environment(<<>>, 1, FALSE)),
                          [length |-> length, root |-> root], style),
                TRUE)

\* The parser called node by node.
Next == Construct \/ DoParseTag

Spec == Init /\ [][Next]_vars

\* The parser called line by line, under a configuration the user changes.
LineNext == Construct \/ SetShowLength \/ DoParseLine

LineSpec == Init /\ [][LineNext]_vars

\* ------------------------------------------------------------------------
\* Properties of the parser
\* ------------------------------------------------------------------------

\* The last call was ParseTag on a minimal well-formed element of a
\* registered tag, and it returned.
MinimalElementParsed ==
  /\ call.op = "ParseTag"
  /\ call.fault = "" /\ ~call.hang
  /\ \E tag \in DOMAIN InnerTagsInit : call.node = MinimalElement(tag)

\* C1: ParseTag on a minimal well-formed element of a registered inline tag
\* returns a non-empty fragment whose head is the cell the tag's routine
\* builds, with every child position of that cell filled.
C1_RegisteredTagYieldsFragment ==
  MinimalElementParsed =>
    /\ call.cell # <<>>
    /\ \A slot \in DOMAIN Head(call.cell).kids :
         Head(call.cell).class # "ParenCell" => Head(call.cell).kids[slot] # <<>>

\* C2: an element of an unknown tag that has children parses to the
\* fragment of its children (<bogus><v>x</v></bogus> to a variable cell,
\* <bogus>hello</bogus> to the text cell of hello), and a call opens at
\* most one warning.
C2_UnknownTagIsTransparent ==
  /\ call.warnings <= 1
  /\ (call.op = "ParseTag" /\ call.node = Bogus(<<VarX>>)) =>
       (call.cell # <<>> /\ Head(call.cell).style = "TS_VARIABLE")
  /\ (call.op = "ParseTag" /\ call.node = Bogus(<<Hello>>)) =>
       (call.cell # <<>> /\ Head(call.cell).value = Hello.content)

\* The threshold the specification gives for a length setting.
C3_Threshold(setting) ==
  CASE setting = 0 -> 6000
    [] setting = 1 -> 20000
    [] setting = 2 -> 250000
    [] setting = 3 -> 0
    [] OTHER -> 50000

\* The fragment is exactly one warning-styled text cell with a forced break.
C3_IsLengthWarning(cell) ==
  /\ Len(cell) = 1
  /\ cell[1].class = "TextCell" /\ cell[1].style = "TS_WARNING"
  /\ cell[1].breakLine
  /\ cell[1].kids = NoKids

\* C3: when the threshold T of the length setting is not 0 and the string
\* is T characters or longer, ParseLine returns exactly one warning-styled
\* text cell with a forced line break and never loads the XML; in every
\* other case it hands the string to the XML library.
C3_LongLineGivesWarning ==
  call.op = "ParseLine" =>
    IF C3_Threshold(call.setting) # 0 /\ call.length >= C3_Threshold(call.setting)
      THEN C3_IsLengthWarning(call.cell) /\ call.loads = 0
      ELSE call.loads = 1 /\ ~C3_IsLengthWarning(call.cell)

\* A string of exactly the threshold's length was refused.
C3_Witness ==
  /\ call.op = "ParseLine"
  /\ call.setting = 0 /\ call.length = 6000
  /\ C3_IsLengthWarning(call.cell)

\* The parser a ParseLine call would run in if it were the first call of a
\* newly constructed parser.
C21_FirstCall(zip, setting) ==
  InCall(NewParser(<<>>, <<>>, zip),
         [Environment(<<>>, 1, FALSE) EXCEPT !.showLength = setting])

\* The elements of the given name among the children of the root of a line.
C21_Elements(root, name) ==
  IF root = <<>> THEN {}
  ELSE {<<Head(root).children[i]>> : i \in
          {j \in 1 .. Len(Head(root).children) :
             /\ Head(root).children[j].kind = "element"
             /\ Head(root).children[j].name = name}}

C26_CommonAttrsApplied ==
  (/\ call.op = "ParseTag" /\ call.fault = "" /\ ~call.hang
   /\ call.node # <<>> /\ Head(call.node).kind = "element"
   /\ Head(call.node).name \in DOMAIN InnerTagsInit
   /\ Head(call.node).attrs = CommonAttrs) =>
    LET built == CallRoutine(InCall(WithTables(parser), Environment(<<>>, 1, FALSE)),
                             InnerTagsInit[Head(call.node).name], call.node).cell
    IN  /\ built # <<>>
        /\ Head(built).breakLine
        /\ Head(built).toolTip = "tip"
        /\ Head(built).altCopy = <<"c">>

\* C10: no call reads through an absent node or cell, and none reads a
\* string outside its range.
C10_NoFault == call.fault = ""

\* C11: once a parser has been constructed, no call of ParseTag (and so of
\* ParseCellTag) and no later construction adds, removes or changes an
\* entry of the inline-tag or of the group-tag dispatch table.
C11_TablesNeverChange == [][tables' = tables]_vars

\* The fragment ParseTag obtains for the one node `node` points to: the
\* text cell of a text node; for an element the fragment of its routine or,
\* when there is none, of its children, with the element's common
\* attributes.
C12_FragmentOf(p, node) ==
  IF Head(node).kind = "element" THEN
    LET function == TableGet(p.innerTags, Head(node).name)
        p1 == [p EXCEPT !.innerTags = TableAfterGet(p.innerTags, Head(node).name)]
        r1 == IF function # "null" THEN CallRoutine(p1, function, node) ELSE R(p1, <<>>)
        r2 == IF r1.cell = <<>> /\ Head(node).children # <<>>
                THEN ParseTag(r1.p, Head(node).children, TRUE) ELSE r1
    IN  R(r2.p, ParseCommonAttrs(node, r2.cell))
  ELSE R(p, ParseText(p, node, "TS_DEFAULT"))

\* The fragments of a node and of the siblings after it, in document order.
RECURSIVE C12_Fragments(_, _)
C12_Fragments(p, node) ==
  IF node = <<>> THEN <<>>
  ELSE LET r == C12_FragmentOf(p, node)
       IN  r.cell \o C12_Fragments(r.p, GetNextTag(node))

\* C12: a ParseTag call that walks all siblings returns the chain of the
\* fragments its nodes produced, in document order, none of them dropped.
C12_AllFragmentsKept ==
  [][(call'.op = "ParseTag" /\ call'.all /\ call'.fault = "" /\ ~call'.hang) =>
       call'.cell = C12_Fragments(InCall(WithTables(parser), Environment(<<>>, 1, FALSE)),
                                  SkipWhitespaceNode(call'.node))]_vars

\* The number of element nodes among a node and the siblings after it.
RECURSIVE C13_Elements(_)
C13_Elements(node) ==
  IF node = <<>> THEN 0
  ELSE (IF Head(node).kind = "element" THEN 1 ELSE 0) + C13_Elements(GetNextTag(node))

\* C13: a ParseTag call that walks all siblings returns at least one cell
\* for every element node, a placeholder where the element gave no
\* fragment.
C13_PlaceholderPerElement ==
  (call.op = "ParseTag" /\ call.all /\ call.fault = "" /\ ~call.hang) =>
    Len(call.cell) >= C13_Elements(SkipWhitespaceNode(call.node))

\* A node or one of the siblings after it is an element no routine is
\* registered for and that has no children to parse instead.
RECURSIVE C14_HasUnknownTag(_)
C14_HasUnknownTag(node) ==
  /\ node # <<>>
  /\ \/ /\ Head(node).kind = "element"
        /\ Head(node).name \notin DOMAIN InnerTagsInit
        /\ Head(node).children = <<>>
     \/ C14_HasUnknownTag(GetNextTag(node))

\* C14: a ParseTag call that walks over an unrecognised tag opens exactly
\* one warning, however many such tags it meets.
C14_OneWarningPerCall ==
  (call.op = "ParseTag" /\ call.all /\ C14_HasUnknownTag(SkipWhitespaceNode(call.node))) =>
    call.warnings = 1

\* C15: every call into the parser returns: no loop over child nodes, the
\* one over the children of a <fold> included, stays on the same node.
C15_EveryLoopAdvances == ~call.hang

\* C16: for a <fold> of n text group cells, ParseCellTag hands HideTree the
\* chain of exactly those n group cells in document order.
C16_FoldGivesChain ==
  \A cells \in {<<TextGroup>>, <<TextGroup, TextGroup>>} :
    (call.op = "ParseTag" /\ call.node = FoldedCell(cells)) =>
      /\ ~call.hang /\ call.cell # <<>>
      /\ Len(Kid(Head(call.cell), "hiddenTree")) = Len(cells)
      /\ \A i \in 1 .. Len(Kid(Head(call.cell), "hiddenTree")) :
           Kid(Head(call.cell), "hiddenTree")[i].class = "GroupCell"

\* ------------------------------------------------------------------------
\* Cell objects: measuring, breaking into lines, draw links
\* ------------------------------------------------------------------------

\* The font sizes a cell is measured at.
FontSizes == {8, 12}

\* The cells the draw links of the object and of its children can point to:
\* none, a child position of the object, or a cell X or Y outside it.
NoTarget == "null"
OutsideCells == {"X", "Y"}

\* The chains a setter is handed: none, or a variable's text cell.
ChildChains == {<<>>, <<TextCell(<<"x">>, "TS_VARIABLE")>>}

\* The chains a script setter is handed: those, or a fraction.
ScriptChains == ChildChains \cup {<<NewCell("FracCell")>>}

\* Scale_Px at a scale factor of 1.
Scale_Px(px) == px

\* The object around a freshly constructed cell: nothing measured, no draw
\* link set.  kidW and kidH give, per child position, the font size its
\* chain's widths and heights were last computed at (0: never); links gives
\* the next-to-draw of the last cell of each child chain; measured counts
\* the list measurements asked of the children while an operation runs.
NewObject(cell) ==
  [cell |-> Head(cell),
   width |-> -1, height |-> -1, center |-> -1, fullWidth |-> -1,
   fontOld |-> 0, brokenOld |-> FALSE, dirty |-> TRUE,
   nextToDraw |-> NoTarget,
   links |-> [slot \in DOMAIN Head(cell).kids |-> NoTarget],
   kidW |-> [slot \in DOMAIN Head(cell).kids |-> 0],
   kidH |-> [slot \in DOMAIN Head(cell).kids |-> 0],
   measured |-> 0]

\* The number of characters of the text cells of a chain.
RECURSIVE ChainLength(_)
ChainLength(chain) ==
  IF chain = <<>> THEN 0 ELSE Len(Head(chain).value) + ChainLength(Tail(chain))

\* The number of rows of text the tallest cell of a chain stacks: two for a
\* fraction, one for a text cell.
RECURSIVE Rows(_)
Rows(chain) ==
  IF chain = <<>> THEN 1
  ELSE Max(IF Head(chain).class = "FracCell" THEN 2 ELSE 1, Rows(Tail(chain)))

\* GetFullWidth, GetHeightList, GetCenterList and GetMaxDrop of a child
\* chain: a character is as wide as the font size the chain was measured
\* at, a row as high.
GetFullWidth(o, slot) ==
  IF slot \in DOMAIN o.kidW THEN o.kidW[slot] * ChainLength(Kid(o.cell, slot)) ELSE 0
GetHeightList(o, slot) ==
  IF slot \in DOMAIN o.kidH THEN o.kidH[slot] * Rows(Kid(o.cell, slot)) ELSE 0
GetCenterList(o, slot) == GetHeightList(o, slot) \div 2
GetMaxDrop(o, slot) == GetHeightList(o, slot) - GetCenterList(o, slot)

\* child->RecalculateWidthsList(fontsize), RecalculateHeightList(fontsize)
\* and RecalculateList(fontsize)
RecalculateWidthsList(o, slot, fontsize) ==
  [o EXCEPT !.kidW = (slot :> fontsize) @@ @, !.measured = @ + 1]
RecalculateHeightList(o, slot, fontsize) ==
  [o EXCEPT !.kidH = (slot :> fontsize) @@ @, !.measured = @ + 1]
RecalculateList(o, slot, fontsize) ==
  [o EXCEPT !.kidW = (slot :> fontsize) @@ @, !.kidH = (slot :> fontsize) @@ @,
            !.measured = @ + 1]

\* Cell::NeedsRecalculation
NeedsRecalculation(o, fontsize) ==
  o.dirty \/ fontsize # o.fontOld \/ o.cell.broken # o.brokenOld

\* Cell::ResetData: the sizes derived from the cell's own are forgotten.
ResetData(o) == [o EXCEPT !.fullWidth = -1]

\* Cell::RecalculateWidths
Cell_RecalculateWidths(o, fontsize) == ResetData(o)

\* Cell::RecalculateHeight and Cell::Recalculate: the size measured at is
\* remembered.
Cell_RecalculateHeight(o, fontsize) ==
  [ResetData(o) EXCEPT !.fontOld = fontsize, !.brokenOld = o.cell.broken,
                       !.dirty = FALSE]
Cell_Recalculate(o, fontsize) == Cell_RecalculateHeight(o, fontsize)

\* FunCell::RecalculateWidths
FunCell_RecalculateWidths(o, fontsize) ==
  IF ~NeedsRecalculation(o, fontsize) THEN o
  ELSE
    LET o1 == RecalculateWidthsList(o, "arg", fontsize)
        o2 == RecalculateWidthsList(o1, "name", fontsize)
        w  == GetFullWidth(o2, "name") + GetFullWidth(o2, "arg") - Scale_Px(1)
    IN  Cell_RecalculateWidths([o2 EXCEPT !.width = IF o.cell.broken THEN 0 ELSE w],
                               fontsize)

\* FunCell::RecalculateHeight
FunCell_RecalculateHeight(o, fontsize) ==
  IF ~NeedsRecalculation(o, fontsize) THEN o
  ELSE
    LET o1 == RecalculateHeightList(o, "name", fontsize)
        o2 == RecalculateHeightList(o1, "arg", fontsize)
        c  == Max(GetCenterList(o2, "name"), GetCenterList(o2, "arg"))
        h  == c + Max(GetMaxDrop(o2, "name"), GetMaxDrop(o2, "arg"))
        o3 == IF ~o.cell.broken THEN [o2 EXCEPT !.center = c, !.height = h]
              ELSE [o2 EXCEPT !.height = 0]
    IN  Cell_RecalculateHeight(o3, fontsize)

MIN_LIMIT_FONT_SIZE == 8
LIMIT_FONT_SIZE_DECREASE == 1

\* The font size of the text under a limit's name.
LimitUnderFont(fontsize) == Max(MIN_LIMIT_FONT_SIZE, fontsize - LIMIT_FONT_SIZE_DECREASE)

\* LimitCell::RecalculateWidths
LimitCell_RecalculateWidths(o, fontsize) ==
  IF ~NeedsRecalculation(o, fontsize) THEN o
  ELSE
    LET o1 == RecalculateWidthsList(o, "base", fontsize)
        o2 == RecalculateWidthsList(o1, "under", LimitUnderFont(fontsize))
        o3 == RecalculateWidthsList(o2, "name", fontsize)
        o4 == RecalculateWidthsList(o3, "open", fontsize)
        o5 == RecalculateWidthsList(o4, "comma", fontsize)
        o6 == RecalculateWidthsList(o5, "close", fontsize)
        w  == Max(GetFullWidth(o6, "name"), GetFullWidth(o6, "under"))
                + GetFullWidth(o6, "base")
    IN  Cell_RecalculateWidths([o6 EXCEPT !.width = IF ~o.cell.broken THEN w ELSE 0],
                               fontsize)

\* LimitCell::RecalculateHeight
LimitCell_RecalculateHeight(o, fontsize) ==
  IF ~NeedsRecalculation(o, fontsize) THEN o
  ELSE
    LET o1 == RecalculateHeightList(o, "under", LimitUnderFont(fontsize))
        o2 == RecalculateHeightList(o1, "name", fontsize)
        o3 == RecalculateHeightList(o2, "base", fontsize)
        o4 == RecalculateHeightList(o3, "open", fontsize)
        o5 == RecalculateHeightList(o4, "comma", fontsize)
        o6 == RecalculateHeightList(o5, "close", fontsize)
        c  == Max(GetCenterList(o6, "base"), GetCenterList(o6, "name"))
        h  == c + Max(GetMaxDrop(o6, "name") + GetHeightList(o6, "under"),
                      GetMaxDrop(o6, "base"))
        o7 == IF ~o.cell.broken THEN [o6 EXCEPT !.center = c, !.height = h]
              ELSE [o6 EXCEPT !.height = GetHeightList(o6, "name"),
                              !.center = GetCenterList(o6, "name")]
    IN  Cell_RecalculateHeight(o7, fontsize)

SUBSUP_DEC == 3
MC_MIN_SIZE == 6
MC_EXP_INDENT == 2

\* The font size of the scripts of a SubSupCell.
SmallerFontSize(fontsize) == Max(MC_MIN_SIZE, fontsize - SUBSUP_DEC)

\* if (script) script->RecalculateList(size)
RecalculateScript(o, slot, fontsize) ==
  IF Kid(o.cell, slot) # <<>> THEN RecalculateList(o, slot, fontsize) ELSE o

\* SubSupCell::Recalculate
SubSupCell_Recalculate(o, fontsize) ==
  LET small == SmallerFontSize(fontsize)
      has(slot) == Kid(o.cell, slot) # <<>>
      o1 == RecalculateList(o, "base", fontsize)
      o2 == RecalculateScript(o1, "postSub", small)
      o3 == RecalculateScript(o2, "postSup", small)
      o4 == RecalculateScript(o3, "preSub", small)
      o5 == RecalculateScript(o4, "preSup", small)
      o6 == RecalculateScript(o5, "postSub", small)
      postWidth1 == IF has("postSub") THEN GetFullWidth(o6, "postSub") ELSE 0
      subHeight1 == IF has("postSub") THEN GetHeightList(o6, "postSub") ELSE 0
      o7 == RecalculateScript(o6, "postSup", small)
      postWidth == IF has("postSup") THEN Max(postWidth1, GetFullWidth(o7, "postSup"))
                   ELSE postWidth1
      supHeight1 == IF has("postSup") THEN GetHeightList(o7, "postSup") ELSE 0
      o8 == RecalculateScript(o7, "preSub", small)
      preWidth1 == IF has("preSub") THEN GetFullWidth(o8, "preSub") ELSE 0
      subHeight == IF has("preSub") THEN Max(subHeight1, GetHeightList(o8, "preSub"))
                   ELSE subHeight1
      o9 == RecalculateScript(o8, "preSup", small)
      preWidth == IF has("preSup") THEN Max(preWidth1, GetFullWidth(o9, "preSup"))
                  ELSE preWidth1
      supHeight == IF has("preSup") THEN Max(subHeight, GetHeightList(o9, "preSup"))
                   ELSE supHeight1
      indent == Scale_Px((8 * fontsize) \div 10 + MC_EXP_INDENT)
  IN  Cell_Recalculate(
        [o9 EXCEPT !.width = preWidth + GetFullWidth(o9, "base") + postWidth,
                   !.height = GetHeightList(o9, "base") + subHeight + supHeight
                                - 2 * indent,
                   !.center = supHeight + GetCenterList(o9, "base") - indent],
        fontsize)

\* Cell::GetNextToDrawImpl, the base class's: the cell's own m_nextToDraw.
Cell_GetNextToDrawImpl(o) == o.nextToDraw

\* last()->SetNextToDraw(next) on the chain of a child position.
LinkLast(o, slot, next) == [o EXCEPT !.links = (slot :> next) @@ @]

\* What an operation gives: the object after it and the value returned.
Gives(o, value) == [obj |-> o, value |-> value]

\* A BreakUp that splits the cell again each time it is called.
FunCell_BreakUpAgain(o) ==
  LET o1 == [o EXCEPT !.cell.broken = TRUE]
      o2 == LinkLast(o1, "name", "arg")
      o3 == LinkLast(o2, "arg", Cell_GetNextToDrawImpl(o2))
  IN  Gives(ResetData([o3 EXCEPT !.width = 0]), TRUE)

\* A BreakUp that forgets what was to be drawn after the cell.
FunCell_BreakUpDropsNext(o) ==
  IF o.cell.broken THEN Gives(o, FALSE)
  ELSE
    LET o1 == [o EXCEPT !.cell.broken = TRUE]
        o2 == LinkLast(o1, "name", "arg")
        o3 == LinkLast(o2, "arg", NoTarget)
    IN  Gives(ResetData([o3 EXCEPT !.width = 0]), TRUE)

\* FunCell::BreakUp
FunCell_BreakUp(o) ==
  IF o.cell.broken THEN Gives(o, FALSE)
  ELSE
    LET o1 == [o EXCEPT !.cell.broken = TRUE]
        o2 == LinkLast(o1, "name", "arg")
        o3 == LinkLast(o2, "arg", Cell_GetNextToDrawImpl(o2))
    IN  Gives(ResetData([o3 EXCEPT !.width = 0]), TRUE)

\* FunCell::SetNextToDrawImpl
FunCell_SetNextToDrawImpl(o, next) == LinkLast(o, "arg", next)

\* FunCell::GetNextToDrawImpl: the child position drawn first.
FunCell_GetNextToDrawImpl(o) == "name"

\* A BreakUp that gives away the chain under the limit.
LimitCell_BreakUpDropsUnder(o) ==
  IF o.cell.broken THEN Gives(o, FALSE)
  ELSE
    LET o1 == [o EXCEPT !.cell.broken = TRUE, !.cell.kids["under"] = <<>>]
        o2 == LinkLast(o1, "name", "open")
        o3 == LinkLast(o2, "open", "base")
        o4 == LinkLast(o3, "base", "comma")
        o5 == LinkLast(o4, "comma", "under")
        o6 == LinkLast(o5, "under", "close")
        o7 == LinkLast(o6, "close", Cell_GetNextToDrawImpl(o6))
    IN  Gives(ResetData(o7), TRUE)

\* LimitCell::BreakUp
LimitCell_BreakUp(o) ==
  IF o.cell.broken THEN Gives(o, FALSE)
  ELSE
    LET o1 == [o EXCEPT !.cell.broken = TRUE]
        o2 == LinkLast(o1, "name", "open")
        o3 == LinkLast(o2, "open", "base")
        o4 == LinkLast(o3, "base", "comma")
        o5 == LinkLast(o4, "comma", "under")
        o6 == LinkLast(o5, "under", "close")
        o7 == LinkLast(o6, "close", Cell_GetNextToDrawImpl(o6))
    IN  Gives(ResetData(o7), TRUE)

\* A SetNextToDrawImpl that links the chain under the limit.
LimitCell_SetNextToDrawUnder(o, next) == LinkLast(o, "under", next)

\* LimitCell::SetNextToDrawImpl
LimitCell_SetNextToDrawImpl(o, next) == LinkLast(o, "close", next)

\* LimitCell::GetNextToDrawImpl: the child position drawn first.
LimitCell_GetNextToDrawImpl(o) == "name"

\* Cell::SetNextToDraw: a cell broken into lines hands the link to its
\* class, any other cell keeps it itself.
Cell_SetNextToDraw(o, next) ==
  IF o.cell.broken THEN
    CASE o.cell.class = "FunCell" -> FunCell_SetNextToDrawImpl(o, next)
      [] o.cell.class = "LimitCell" -> LimitCell_SetNextToDrawImpl(o, next)
      [] OTHER -> [o EXCEPT !.nextToDraw = next]
  ELSE [o EXCEPT !.nextToDraw = next]

\* A setter on the object: the cell changes as the setter says; a chain
\* newly stored at a position is unmeasured and its last cell has no
\* next-to-draw.
Stored(o, cell, slot) ==
  [o EXCEPT !.cell = Head(cell),
            !.links = (slot :> NoTarget) @@ @,
            !.kidW = (slot :> 0) @@ @,
            !.kidH = (slot :> 0) @@ @]

\* Cell::CopyCommonData: the attributes every cell has.
CopyCommonData(new, old) ==
  [new EXCEPT !.type = old.type, !.style = old.style, !.breakLine = old.breakLine,
              !.toolTip = old.toolTip, !.altCopy = old.altCopy,
              !.highlight = old.highlight, !.hidable = old.hidable]

\* FunCell::FunCell(const FunCell &)
FunCell_Copy(cell) ==
  LET c0 == <<CopyCommonData(Head(FunCell_New(FALSE)), cell)>>
  IN  FunCell_SetArg(FunCell_SetName(c0, Kid(cell, "name")), Kid(cell, "arg"))

\* LimitCell::LimitCell(const LimitCell &)
LimitCell_Copy(cell) ==
  LET c0 == <<CopyCommonData(Head(LimitCell_New(FALSE)), cell)>>
  IN  LimitCell_SetName(LimitCell_SetUnder(LimitCell_SetBase(c0, Kid(cell, "base")),
                                           Kid(cell, "under")), Kid(cell, "name"))

\* SubSupCell::SubSupCell(const SubSupCell &)
SubSupCell_Copy(cell) ==
  LET c0 == <<CopyCommonData(Head(SubSupCell_New), cell)>>
      c1 == SubSupCell_SetBase(c0, Kid(cell, "base"))
      c2 == SubSupCell_SetIndex(c1, Kid(cell, "postSub"))
      c3 == SubSupCell_SetExponent(c2, Kid(cell, "postSup"))
      c4 == SubSupCell_SetPreSub(c3, Kid(cell, "preSub"))
  IN  SubSupCell_SetPreSup(c4, Kid(cell, "preSup"))

\* ------------------------------------------------------------------------
\* A cell object as a state machine
\* ------------------------------------------------------------------------

IsFun == obj.cell.class = "FunCell"
IsLimit == obj.cell.class = "LimitCell"
IsSubSup == obj.cell.class = "SubSupCell"

\* The number of operations an object's history is followed for.
MaxOps == 5

\* The state after an operation that left the object as o: ret tells which
\* operation of the history it was, its arguments, the value returned and
\* how many list measurements it asked of the children.
Done(op, o, value, arg, font) ==
  /\ ret.n < MaxOps
  /\ obj' = [o EXCEPT !.measured = 0]
  /\ ret' = [op |-> op, n |-> ret.n + 1, value |-> value, arg |-> arg, font |-> font,
             measured |-> o.measured]
  /\ UNCHANGED <<parserVars, render>>

CellInit ==
  /\ tables = [inner |-> InnerTagsInit, group |-> GroupTagsInit]
  /\ parser = Members(NewParser(<<>>, <<>>, FALSE))
  /\ showLength = 0
  /\ call = NoCall
  /\ alive = TRUE
  /\ obj \in {NewObject(FunCell_New(TRUE)), NewObject(LimitCell_New(TRUE)),
              NewObject(SubSupCell_New)}
  /\ ret = NoRet
  /\ render = NoRender

\* FunCell::SetName, LimitCell::SetName
SetName ==
  /\ IsFun \/ IsLimit
  /\ \E name \in ChildChains :
       Done("SetName",
            Stored(obj, IF IsFun THEN FunCell_SetName(<<obj.cell>>, name)
                                 ELSE LimitCell_SetName(<<obj.cell>>, name), "name"),
            FALSE, name, 0)

\* FunCell::SetArg
SetArg ==
  /\ IsFun
  /\ \E arg \in ChildChains :
       Done("SetArg", Stored(obj, FunCell_SetArg(<<obj.cell>>, arg), "arg"),
            FALSE, arg, 0)

\* LimitCell::SetBase, SubSupCell::SetBase
SetBase ==
  /\ IsLimit \/ IsSubSup
  /\ \E base \in ChildChains :
       Done("SetBase",
            IF IsLimit
              THEN Stored(obj, LimitCell_SetBase(<<obj.cell>>, base), "base")
              ELSE IF base = <<>> THEN obj
              ELSE Stored(obj, SubSupCell_SetBase(<<obj.cell>>, base), "base"),
            FALSE, base, 0)

\* LimitCell::SetUnder
SetUnder ==
  /\ IsLimit
  /\ \E under \in ChildChains :
       Done("SetUnder",
            Stored(obj, LimitCell_SetUnder(<<obj.cell>>, under), "under"),
            FALSE, under, 0)

\* The setters of the script positions of a SubSupCell.
SetScript(op, slot, cell, script) ==
  Done(op, IF script = <<>> THEN obj ELSE Stored(obj, cell, slot),
       FALSE, script, 0)

SetIndex ==
  IsSubSup /\ \E s \in ScriptChains :
    SetScript("SetIndex", "postSub", SubSupCell_SetIndex(<<obj.cell>>, s), s)
SetExponent ==
  IsSubSup /\ \E s \in ScriptChains :
    SetScript("SetExponent", "postSup", SubSupCell_SetExponent(<<obj.cell>>, s), s)
SetPreSub ==
  IsSubSup /\ \E s \in ScriptChains :
    SetScript("SetPreSub", "preSub", SubSupCell_SetPreSub(<<obj.cell>>, s), s)
SetPreSup ==
  IsSubSup /\ \E s \in ScriptChains :
    SetScript("SetPreSup", "preSup", SubSupCell_SetPreSup(<<obj.cell>>, s), s)
SetPostSub ==
  IsSubSup /\ \E s \in ScriptChains :
    SetScript("SetPostSub", "postSub", SubSupCell_SetPostSub(<<obj.cell>>, s), s)
SetPostSup ==
  IsSubSup /\ \E s \in ScriptChains :
    SetScript("SetPostSup", "postSup", SubSupCell_SetPostSup(<<obj.cell>>, s), s)

\* The copy constructors: the copy takes the place of the object.
Copy ==
  Done("Copy",
       NewObject(CASE IsFun -> FunCell_Copy(obj.cell)
                   [] IsLimit -> LimitCell_Copy(obj.cell)
                   [] IsSubSup -> SubSupCell_Copy(obj.cell)),
       FALSE, <<>>, 0)

\* FunCell::BreakUp, LimitCell::BreakUp
BreakUp ==
  /\ IsFun \/ IsLimit
  /\ LET g == IF IsFun THEN FunCell_BreakUp(obj)
              ELSE LimitCell_BreakUp(obj)
     IN  Done("BreakUp", g.obj, g.value, <<>>, 0)

\* Cell::SetNextToDraw on the object
SetNextToDraw ==
  \E next \in OutsideCells :
    Done("SetNextToDraw", Cell_SetNextToDraw(obj, next), FALSE, <<next>>, 0)

\* FunCell::RecalculateWidths, LimitCell::RecalculateWidths.  The value
\* noted for a measuring operation is what NeedsRecalculation said of the
\* object when it was called.
RecalculateWidths ==
  /\ IsFun \/ IsLimit
  /\ \E fontsize \in FontSizes :
       Done("RecalculateWidths",
            IF IsFun THEN FunCell_RecalculateWidths(obj, fontsize)
            ELSE LimitCell_RecalculateWidths(obj, fontsize),
            NeedsRecalculation(obj, fontsize), <<>>, fontsize)

\* FunCell::RecalculateHeight, LimitCell::RecalculateHeight
RecalculateHeight ==
  /\ IsFun \/ IsLimit
  /\ \E fontsize \in FontSizes :
       Done("RecalculateHeight",
            IF IsFun THEN FunCell_RecalculateHeight(obj, fontsize)
            ELSE LimitCell_RecalculateHeight(obj, fontsize),
            NeedsRecalculation(obj, fontsize), <<>>, fontsize)

\* SubSupCell::Recalculate
Recalculate ==
  /\ IsSubSup
  /\ \E fontsize \in FontSizes :
       Done("Recalculate", SubSupCell_Recalculate(obj, fontsize),
            NeedsRecalculation(obj, fontsize), <<>>, fontsize)

CellNext ==
  \/ SetName \/ SetArg \/ SetBase \/ SetUnder
  \/ SetIndex \/ SetExponent \/ SetPreSub \/ SetPreSup \/ SetPostSub \/ SetPostSup
  \/ Copy \/ BreakUp \/ SetNextToDraw
  \/ RecalculateWidths \/ RecalculateHeight \/ Recalculate

CellSpec == CellInit /\ [][CellNext]_vars

\* ------------------------------------------------------------------------
\* Properties of the cell objects
\* ------------------------------------------------------------------------

\* The step is a call of the operation op.
IsCallOf(op) == ret'.n # ret.n /\ ret'.op = op

\* C4: for FunCell and LimitCell the first BreakUp on an unbroken cell
\* returns true and sets the broken-into-lines flag; every later call
\* returns false and changes neither the flag, nor a next-to-draw link, nor
\* the cached metrics; no operation on the cell resets the flag.
C4_BreakUpIsOneWay ==
  [][/\ IsCallOf("BreakUp") =>
          IF obj.cell.broken
            THEN ~ret'.value /\ obj' = obj
            ELSE ret'.value /\ obj'.cell.broken
     /\ (obj.cell.broken /\ ~IsCallOf("Copy")) => obj'.cell.broken]_vars

\* BreakUp was called on a cell already broken into lines.
C4_Witness ==
  /\ ret.op = "BreakUp" /\ ~ret.value
  /\ obj.cell.broken
  /\ obj.links["name"] # NoTarget

MeasuringOps == {"RecalculateWidths", "RecalculateHeight", "Recalculate"}

\* C5: measuring a FunCell, LimitCell or SubSupCell that was already
\* measured at the same font size leaves width, height and center as they
\* are and asks no measurement of the children; measuring it at another
\* font size measures the children at sizes derived from the new one.
C5_MeasuringAgainIsNoOp ==
  [][(ret'.n # ret.n /\ ret'.op \in MeasuringOps) =>
       IF ~ret'.value
         THEN /\ obj'.width = obj.width /\ obj'.height = obj.height
              /\ obj'.center = obj.center
              /\ ret'.measured = 0
         ELSE ret'.measured > 0]_vars

SetterSlot(op) ==
  CASE op = "SetName" -> "name"
    [] op = "SetArg" -> "arg"
    [] op = "SetBase" -> "base"
    [] op = "SetUnder" -> "under"

\* C9: every required child of a FunCell or LimitCell is non-null after
\* construction, copying and every setter call; a setter handed null stores
\* an error-styled placeholder, a setter handed a chain stores that chain
\* unchanged.
C9_RequiredChildrenPresent ==
  /\ IsFun => Kid(obj.cell, "name") # <<>> /\ Kid(obj.cell, "arg") # <<>>
  /\ IsLimit => /\ Kid(obj.cell, "name") # <<>>
                /\ Kid(obj.cell, "base") # <<>>
                /\ Kid(obj.cell, "under") # <<>>
  /\ ((IsFun \/ IsLimit) /\ ret.op \in {"SetName", "SetArg", "SetBase", "SetUnder"}) =>
       IF ret.arg = <<>>
         THEN Head(Kid(obj.cell, SetterSlot(ret.op))).style = "TS_ERROR"
         ELSE Kid(obj.cell, SetterSlot(ret.op)) = ret.arg

\* The draw order from the child position `at` on: the positions whose
\* chains are drawn, then the cell the last of them hands over to.
RECURSIVE DrawOrderFrom(_, _, _)
DrawOrderFrom(o, at, left) ==
  IF at \notin DOMAIN o.links \/ left = 0 THEN <<at>>
  ELSE <<at>> \o DrawOrderFrom(o, o.links[at], left - 1)

\* The draw order of a cell broken into lines.
DrawOrder(o) ==
  DrawOrderFrom(o, IF o.cell.class = "FunCell" THEN FunCell_GetNextToDrawImpl(o)
                   ELSE LimitCell_GetNextToDrawImpl(o),
                Cardinality(DOMAIN o.links))

\* C17: SetNextToDraw(X) on an unbroken FunCell makes X its next-to-draw,
\* and the BreakUp that follows gives the draw order name chain, argument
\* chain, X: the last cell of the argument chain has next-to-draw X.
C17_FunDrawOrder ==
  [][/\ (IsCallOf("SetNextToDraw") /\ IsFun /\ ~obj.cell.broken) =>
          obj'.nextToDraw = ret'.arg[1]
     /\ (IsCallOf("BreakUp") /\ IsFun /\ ~obj.cell.broken) =>
          DrawOrder(obj') = <<"name", "arg", obj.nextToDraw>>]_vars

\* An unbroken FunCell whose next-to-draw was X has been broken into lines.
C17_Witness ==
  /\ ret.op = "BreakUp" /\ ret.value /\ IsFun
  /\ DrawOrder(obj) = <<"name", "arg", "X">>

\* C18: LimitCell::BreakUp gives the draw order name, "(", base, ",",
\* under, ")" and then what was the cell's next-to-draw before; a later
\* SetNextToDraw(Y) makes Y the successor of ")" and changes no other link.
C18_LimitDrawOrder ==
  [][/\ (IsCallOf("BreakUp") /\ IsLimit /\ ~obj.cell.broken) =>
          DrawOrder(obj') =
            <<"name", "open", "base", "comma", "under", "close", obj.nextToDraw>>
     /\ (IsCallOf("SetNextToDraw") /\ IsLimit /\ obj.cell.broken) =>
          /\ obj'.links["close"] = ret'.arg[1]
          /\ \A slot \in DOMAIN obj.links \ {"close"} : obj'.links[slot] = obj.links[slot]
          /\ obj'.nextToDraw = obj.nextToDraw]_vars

\* A LimitCell broken into lines when its next-to-draw was X has been told
\* to draw Y next.
C18_Witness ==
  /\ ret.op = "SetNextToDraw" /\ ret.arg = <<"Y">> /\ IsLimit /\ obj.cell.broken
  /\ obj.nextToDraw = "X"
  /\ DrawOrder(obj) = <<"name", "open", "base", "comma", "under", "close", "Y">>

\* C19: BreakUp on a FunCell or LimitCell leaves the cell's children and
\* their chains as they are; apart from the flag only next-to-draw links
\* and metrics change.
C19_BreakUpKeepsChildren ==
  [][(IsCallOf("BreakUp") /\ (IsFun \/ IsLimit)) =>
       /\ obj'.cell.kids = obj.cell.kids
       /\ obj'.cell = [obj.cell EXCEPT !.broken = obj'.cell.broken]
       /\ obj'.nextToDraw = obj.nextToDraw
       /\ obj'.kidW = obj.kidW /\ obj'.kidH = obj.kidH]_vars

\* A LimitCell whose children were set has been broken into lines.
C19_Witness ==
  /\ ret.op = "BreakUp" /\ ret.value /\ IsLimit
  /\ obj.links["under"] = "close"
  /\ Kid(obj.cell, "under") = <<TextCell(<<"x">>, "TS_VARIABLE")>>

\* C20: a FunCell or LimitCell that is broken into lines and is measured,
\* RecalculateWidths and then RecalculateHeight at a font size, has width 0
\* and height 0.
C20_BrokenCellHasNoSize ==
  [][(IsCallOf("RecalculateHeight") /\ ret.op = "RecalculateWidths"
        /\ ret'.font = ret.font /\ obj.cell.broken) =>
       obj'.width = 0 /\ obj'.height = 0]_vars

\* The script positions of a SubSupCell.
ScriptSlots == {"preSub", "preSup", "postSub", "postSup"}

ScriptSetters ==
  {"SetPreSub", "SetPreSup", "SetPostSub", "SetPostSup", "SetIndex", "SetExponent"}

\* C22: after any sequence of script setter calls on a SubSupCell a call
\* with a null script has changed nothing, a call with a script has made it
\* the occupant of its position, and the ordered collection of active
\* scripts holds exactly the occupied positions, each once.
C22_ScriptsAreTheOccupants ==
  IsSubSup =>
    /\ (ret.op \in ScriptSetters /\ ret.arg # <<>>) =>
         \E slot \in ScriptSlots : Kid(obj.cell, slot) = ret.arg
    /\ {obj.cell.scripts[i] : i \in 1 .. Len(obj.cell.scripts)} =
         {slot \in ScriptSlots : Kid(obj.cell, slot) # <<>>}
    /\ \A i, j \in 1 .. Len(obj.cell.scripts) :
         obj.cell.scripts[i] = obj.cell.scripts[j] => i = j

\* The width and the height of the script at a position, 0 where there is
\* none.
C28_Width(o, slot) == IF Kid(o.cell, slot) # <<>> THEN GetFullWidth(o, slot) ELSE 0
C28_Height(o, slot) == IF Kid(o.cell, slot) # <<>> THEN GetHeightList(o, slot) ELSE 0

\* C28: SubSupCell::Recalculate takes as superscript term the larger of
\* the heights of the superscripts that are there and as subscript term the
\* larger of the heights of the subscripts; the width is the wider
\* pre-script, the base and the wider post-script.
C28_ScriptTermsAreMaxima ==
  (IsSubSup /\ ret.op = "Recalculate") =>
    LET sup == Max(C28_Height(obj, "postSup"), C28_Height(obj, "preSup"))
        sub == Max(C28_Height(obj, "postSub"), C28_Height(obj, "preSub"))
        indent == Scale_Px((8 * ret.font) \div 10 + MC_EXP_INDENT)
    IN  /\ obj.width = Max(C28_Width(obj, "preSub"), C28_Width(obj, "preSup"))
                         + GetFullWidth(obj, "base")
                         + Max(C28_Width(obj, "postSub"), C28_Width(obj, "postSup"))
        /\ obj.height = GetHeightList(obj, "base") + sub + sup - 2 * indent
        /\ obj.center = sup + GetCenterList(obj, "base") - indent

\* ------------------------------------------------------------------------
\* Renderings: Matlab, TeX, XML
\* ------------------------------------------------------------------------

\* TextCell::ToMatlab of a chain of text cells: the texts in order.
ListToMatlab(chain) == Concat([i \in 1..Len(chain) |-> chain[i].value])

\* LimitCell::ToMatlab
LimitCell_ToMatlab(c) ==
  LimitText(ListToMatlab(Kid(c, "under")), ListToMatlab(Kid(c, "base")))

\* TextCell::ToTeX: a function name is set upright, any other text as it is.
TextCell_ToTeX(c) ==
  IF c.style = "TS_FUNCTION" THEN <<"\\operatorname{">> \o c.value \o <<"}">>
  ELSE c.value

\* Cell::ListToTeX of a chain of text cells
ListToTeX(chain) == Concat([i \in 1..Len(chain) |-> TextCell_ToTeX(chain[i])])

\* The names FunCell::ToTeX writes as TeX commands.
TeXFunctionNames ==
  {<<"s", "i", "n">>, <<"c", "o", "s">>, <<"c", "o", "s", "h">>, <<"s", "i", "n", "h">>,
   <<"l", "o", "g">>, <<"c", "o", "t">>, <<"s", "e", "c">>, <<"c", "s", "c">>,
   <<"t", "a", "n">>}

\* A FunCell::ToTeX that knows no TeX command.
FunCell_ToTeXPlain(c) ==
  IF c.broken THEN <<>>
  ELSE ListToTeX(Kid(c, "name")) \o ListToTeX(Kid(c, "arg"))

\* FunCell::ToTeX
FunCell_ToTeX(c) ==
  IF c.broken THEN <<>>
  ELSE IF Cell_ToString(Head(Kid(c, "name"))) \in TeXFunctionNames
    THEN <<"\\">> \o Cell_ToString(Head(Kid(c, "name"))) \o <<"{">>
           \o ListToTeX(Kid(c, "arg")) \o <<"}">>
    ELSE ListToTeX(Kid(c, "name")) \o ListToTeX(Kid(c, "arg"))

RECURSIVE ListToXML(_)

\* The flags every ToXML writes first: breakline="true" for a forced break.
BreakFlag(c) == IF c.breakLine THEN ("breakline" :> "true") ELSE NoAttrs

\* TextCell::ToXML, as the element the XML library reads back: the tag of
\* the text's style around the text.
TextCell_ToXML(c) ==
  LET tag == CASE c.style = "TS_VARIABLE" -> "v"
               [] c.style = "TS_NUMBER" -> "n"
               [] c.style = "TS_FUNCTION" -> "fnm"
               [] c.style = "TS_GREEK_CONSTANT" -> "g"
               [] c.style = "TS_SPECIAL_CONSTANT" -> "s"
               [] c.style = "TS_STRING" -> "st"
               [] OTHER -> "t"
  IN  Elem(tag, BreakFlag(c), IF c.value = <<>> THEN <<>> ELSE <<Text(c.value)>>)

\* FunCell::ToXML
FunCell_ToXML(c) ==
  Elem("fn", BreakFlag(c),
       <<Elem("r", NoAttrs, ListToXML(Kid(c, "name")))>> \o ListToXML(Kid(c, "arg")))

\* LimitCell::ToXML
LimitCell_ToXML(c) ==
  Elem("lm", BreakFlag(c),
       <<Elem("r", NoAttrs, ListToXML(Kid(c, "name"))),
         Elem("r", NoAttrs, ListToXML(Kid(c, "under"))),
         Elem("r", NoAttrs, ListToXML(Kid(c, "base")))>>)

\* <r pos="...">script</r> for a script position that is filled
PosRow(c, slot, pos) ==
  IF Kid(c, slot) # <<>> THEN <<Elem("r", ("pos" :> pos), ListToXML(Kid(c, slot)))>>
  ELSE <<>>

\* SubSupCell::ToXML
SubSupCell_ToXML(c) ==
  LET flags == (IF c.altCopy # <<>> THEN ("altCopy" :> c.altCopy) ELSE NoAttrs)
                 @@ BreakFlag(c)
  IN  IF c.scripts = <<>>
        THEN Elem("ie", flags,
                  <<Elem("r", NoAttrs, ListToXML(Kid(c, "base"))),
                    Elem("r", NoAttrs, ListToXML(Kid(c, "postSub"))),
                    Elem("r", NoAttrs, ListToXML(Kid(c, "postSup")))>>)
        ELSE Elem("ie", flags,
                  <<Elem("r", NoAttrs, ListToXML(Kid(c, "base")))>>
                    \o PosRow(c, "preSup", "presup") \o PosRow(c, "preSub", "presub")
                    \o PosRow(c, "postSup", "postsup") \o PosRow(c, "postSub", "postsub"))

\* Cell::ToXML of the classes the renderings are followed for.
Cell_ToXML(c) ==
  CASE c.class = "FunCell" -> FunCell_ToXML(c)
    [] c.class = "LimitCell" -> LimitCell_ToXML(c)
    [] c.class = "SubSupCell" -> SubSupCell_ToXML(c)
    [] OTHER -> TextCell_ToXML(c)

\* Cell::ListToXML: the elements of the cells of a chain, in order.
ListToXML(chain) == [i \in 1..Len(chain) |-> Cell_ToXML(chain[i])]

\* TextCell::ToMathML and TextCell::ToOMML of a chain of text cells: each
\* text in the markup of an identifier, of a run.
ListToMathML(chain) ==
  Concat([i \in 1..Len(chain) |->
            IF chain[i].value = <<>> THEN <<>>
            ELSE <<"<mi>">> \o chain[i].value \o <<"</mi>">>])
ListToOMML(chain) ==
  Concat([i \in 1..Len(chain) |->
            IF chain[i].value = <<>> THEN <<>>
            ELSE <<"<m:r>">> \o chain[i].value \o <<"</m:r>">>])

\* What the text forms read where m_postSubCell or m_postSupCell is null:
\* the cell with the text the read yields in the absent position.
ReadThroughNull(c, garbage) ==
  LET read(slot) == IF Kid(c, slot) = <<>> THEN <<TextCell(garbage, "TS_DEFAULT")>>
                    ELSE Kid(c, slot)
  IN  IF c.scripts = <<>>
        THEN SetKid(SetKid(c, "postSub", read("postSub")), "postSup", read("postSup"))
        ELSE c

\* SubSupCell::ToMatlab, for a cell it reads no absent script of.
SubSupCell_ToMatlab(c) ==
  LET b == IF IsCompound(Kid(c, "base"))
             THEN <<"(">> \o ListToMatlab(Kid(c, "base")) \o <<")">>
             ELSE ListToMatlab(Kid(c, "base"))
  IN  IF c.scripts = <<>>
        THEN b \o <<"[">> \o ListToMatlab(Kid(c, "postSub")) \o <<"]">> \o <<"^">>
               \o (IF IsCompound(Kid(c, "postSup")) THEN <<"(">> ELSE <<>>)
               \o ListToMatlab(Kid(c, "postSup"))
               \o (IF IsCompound(Kid(c, "postSup")) THEN <<")">> ELSE <<>>)
        ELSE b \o <<"[">>
               \o Concat([i \in 1..Len(c.scripts) |->
                            (IF i = 1 THEN <<";">> ELSE <<>>)
                              \o ListToMatlab(Kid(c, c.scripts[i]))])
               \o <<"]">>

\* "^{" + script->ListToTeX() + "}" and "_{" ... "}" for a script that is
\* there.
TeXScript(c, slot, mark) ==
  IF Kid(c, slot) # <<>> THEN <<mark, "{">> \o ListToTeX(Kid(c, slot)) \o <<"}">>
  ELSE <<>>

\* SubSupCell::ToTeX; after is the configuration's
\* TeXExponentsAfterSubscript.
SubSupCell_ToTeX(c, after) ==
  IF c.scripts = <<>>
    THEN IF after
      THEN <<"{", "{", "{">> \o ListToTeX(Kid(c, "base")) \o <<"}">>
             \o TeXScript(c, "postSub", "_") \o <<"}">>
             \o TeXScript(c, "postSup", "^") \o <<"}">>
      ELSE <<"{", "{">> \o ListToTeX(Kid(c, "base")) \o <<"}">>
             \o TeXScript(c, "postSub", "_") \o TeXScript(c, "postSup", "^") \o <<"}">>
    ELSE (IF Kid(c, "preSup") # <<>> \/ Kid(c, "preSub") # <<>>
            THEN <<"{", "}">> \o TeXScript(c, "preSup", "^") \o TeXScript(c, "preSub", "^")
            ELSE <<>>)
           \o <<"{">> \o ListToTeX(Kid(c, "base")) \o <<"}">>
           \o TeXScript(c, "postSup", "^") \o TeXScript(c, "postSub", "^")

\* "<mrow>" + script->ListToMathML() + "</mrow>", or "<none/>"
MathMLRow(c, slot) ==
  IF Kid(c, slot) # <<>> THEN <<"<mrow>">> \o ListToMathML(Kid(c, slot)) \o <<"</mrow>">>
  ELSE <<"<none/>">>

\* SubSupCell::ToMathML.  In the <msubsup> form the rendering of the
\* superscript is computed and not appended.
SubSupCell_ToMathML(c) ==
  IF c.scripts = <<>>
    THEN <<"<msubsup>">> \o ListToMathML(Kid(c, "base"))
           \o (IF Kid(c, "postSub") # <<>> THEN ListToMathML(Kid(c, "postSub"))
                ELSE <<"<mrow/>">>)
           \o (IF Kid(c, "postSup") # <<>> THEN <<>> ELSE <<"<mrow/>">>)
           \o <<"</msubsup>", "NL">>
    ELSE <<"<mmultiscripts>">> \o ListToMathML(Kid(c, "base"))
           \o (IF Kid(c, "postSup") # <<>> \/ Kid(c, "postSub") # <<>>
                  THEN MathMLRow(c, "postSub") \o MathMLRow(c, "postSup") ELSE <<>>)
           \o (IF Kid(c, "preSup") # <<>> \/ Kid(c, "preSub") # <<>>
                  THEN <<"<mprescripts/>">> \o MathMLRow(c, "preSub")
                         \o MathMLRow(c, "preSup")
                  ELSE <<>>)
           \o <<"</mmultiscripts>", "NL">>

\* script->ListToOMML(), or "<m:r></m:r>"
OMMLRun(c, slot) ==
  IF Kid(c, slot) # <<>> THEN ListToOMML(Kid(c, slot)) ELSE <<"<m:r></m:r>">>

\* SubSupCell::ToOMML
SubSupCell_ToOMML(c) ==
  (IF Kid(c, "preSup") # <<>> \/ Kid(c, "preSub") # <<>>
     THEN <<"<m:sSubSup>", "<m:e>", "<m:r></m:r>", "</m:e>", "<m:sub>">>
            \o OMMLRun(c, "preSub") \o <<"</m:sub>", "<m:sup>">>
            \o OMMLRun(c, "preSup") \o <<"</m:sup>", "</m:sSubSup>", "NL">>
     ELSE <<>>)
    \o <<"<m:sSubSup>", "<m:e>">> \o ListToOMML(Kid(c, "base")) \o <<"</m:e>", "<m:sub>">>
    \o OMMLRun(c, "postSub") \o <<"</m:sub>", "<m:sup>">>
    \o OMMLRun(c, "postSup") \o <<"</m:sup>", "</m:sSubSup>", "NL">>

\* LimitCell::ToMathML
LimitCell_ToMathML(c) ==
  IF ListToMathML(Kid(c, "under")) = <<>>
    THEN <<"<mo>lim</mo>">> \o ListToMathML(Kid(c, "base"))
    ELSE <<"<munder>", "<mo>lim</mo>">> \o ListToMathML(Kid(c, "under"))
           \o <<"</munder>", "NL">>

\* The six serializations of a SubSupCell.  ToString and ToMatlab read
\* m_postSubCell and m_postSupCell unchecked: where one is null the read
\* stops the process (no rendering is returned) or goes on with garbage.
SubSupCell_Serialize(c, after, outcome) ==
  [after    |-> after,
   fault    |-> SubSupCell_ToStringDerefsNull([c EXCEPT !.altCopy = <<>>]),
   returned |-> ~(SubSupCell_ToStringDerefsNull([c EXCEPT !.altCopy = <<>>])
                    /\ outcome = "crash"),
   ToString |-> SubSupCell_ToString(
                  IF c.altCopy = <<>> THEN ReadThroughNull(c, Garbage(outcome)) ELSE c),
   ToMatlab |-> SubSupCell_ToMatlab(ReadThroughNull(c, Garbage(outcome))),
   ToTeX    |-> SubSupCell_ToTeX(c, after),
   ToMathML |-> SubSupCell_ToMathML(c),
   ToOMML   |-> SubSupCell_ToOMML(c),
   ToXML    |-> SubSupCell_ToXML(c)]

\* ------------------------------------------------------------------------
\* The renderings as a state machine
\* ------------------------------------------------------------------------

\* The longest rendering of an under cell.
MaxLen == 5

\* The characters the rendering of an under cell is made of.
UnderAlphabet == {"x", "0", "-", ">", "+"}

RECURSIVE StringsUpTo(_)
\* The strings of at most n characters of the alphabet.
StringsUpTo(n) ==
  IF n = 0 THEN {<<>>}
  ELSE LET shorter == StringsUpTo(n - 1)
       IN  shorter \cup {Append(str, ch) : str \in shorter, ch \in UnderAlphabet}

\* The renderings of the base of a limit.
BaseTexts == {<<"f">>, <<"f", "(", "x", ")">>}

\* A LimitCell whose under cell and base are text cells of the given texts.
LimitOf(under, base) ==
  Head(LimitCell_SetBase(
         LimitCell_SetUnder(LimitCell_New(TRUE), <<TextCell(under, "TS_VARIABLE")>>),
         <<TextCell(base, "TS_VARIABLE")>>))

\* The function names FunCell::ToTeX is followed for: the nine it writes as
\* commands, and names that differ from them in a letter, in case, in
\* length.
FunNames ==
  TeXFunctionNames
  \cup {<<"f", "o", "o">>, <<"t", "a", "n", "h">>, <<"S", "i", "n">>, <<"s", "i">>,
        <<"l", "n">>, <<>>}

\* The chains a function is applied to.
ArgChains ==
  {<<TextCell(<<"(", "x", ")">>, "TS_VARIABLE")>>,
   <<TextCell(<<"(">>, "TS_DEFAULT"), TextCell(<<"g">>, "TS_FUNCTION"),
     TextCell(<<")">>, "TS_DEFAULT")>>}

\* What may follow the first cell of a name chain.
NameTails == {<<>>, <<TextCell(<<"2">>, "TS_NUMBER")>>}

\* The cell trees serialized and parsed back.
Trees ==
  LET x == <<TextCell(<<"x">>, "TS_VARIABLE")>>
      f == <<TextCell(<<"f">>, "TS_FUNCTION")>>
      two == <<TextCell(<<"2">>, "TS_NUMBER")>>
      fun == FunCell_SetArg(FunCell_SetName(FunCell_New(TRUE), f), x)
      lim == LimitCell_SetName(LimitCell_SetUnder(LimitCell_SetBase(
               LimitCell_New(TRUE), x), two), f)
      sub == SubSupCell_SetBase(SubSupCell_New, x)
  IN  {fun, ForceBreakLine(fun), lim, ForceBreakLine(lim),
       FunCell_SetArg(fun, lim),
       SubSupCell_SetExponent(SubSupCell_SetIndex(sub, two), x),
       SubSupCell_SetPostSup(SubSupCell_SetPreSub(sub, two), x),
       ForceBreakLine(SubSupCell_SetPostSub(sub, two)),
       SetAltCopyText(SubSupCell_SetPostSup(SubSupCell_SetPostSub(sub, two), fun),
                      <<"x", "2">>),
       x, x \o two}

\* The number of script setter calls a SubSupCell is built with.
MaxSetters == 3

\* The script each position is given: a, b before the base, c, d after it.
ScriptFor(slot) ==
  <<TextCell(<<CASE slot = "preSub" -> "a" [] slot = "preSup" -> "b"
                 [] slot = "postSub" -> "c" [] slot = "postSup" -> "d">>,
             "TS_VARIABLE")>>

\* One script setter called on a SubSupCell.
CallSetter(cell, setter) ==
  CASE setter = "SetPreSub" -> SubSupCell_SetPreSub(cell, ScriptFor("preSub"))
    [] setter = "SetPreSup" -> SubSupCell_SetPreSup(cell, ScriptFor("preSup"))
    [] setter = "SetPostSub" -> SubSupCell_SetPostSub(cell, ScriptFor("postSub"))
    [] setter = "SetPostSup" -> SubSupCell_SetPostSup(cell, ScriptFor("postSup"))
    [] setter = "SetIndex" -> SubSupCell_SetIndex(cell, ScriptFor("postSub"))
    [] setter = "SetExponent" -> SubSupCell_SetExponent(cell, ScriptFor("postSup"))

RECURSIVE SubSupCellsAfter(_)
\* The SubSupCells of base x that at most n setter calls build.
SubSupCellsAfter(n) ==
  IF n = 0 THEN {SubSupCell_SetBase(SubSupCell_New, <<TextCell(<<"x">>, "TS_VARIABLE")>>)}
  ELSE LET fewer == SubSupCellsAfter(n - 1)
       IN  fewer \cup {CallSetter(cell, setter) :
                         cell \in fewer,
                         setter \in {"SetPreSub", "SetPreSup", "SetPostSub", "SetPostSup",
                                     "SetIndex", "SetExponent"}}

\* The renderings of the under cell LimitCell::ToMathML is followed for.
MathMLUnders == {<<>>, <<"x", "-", ">", "0">>}

\* A rendering asked for and not yet computed.
Asked(op, input) == [op |-> op, done |-> FALSE, input |-> input, out |-> <<>>]

\* The renderings asked for: the text forms of limits, the TeX forms of
\* function applications, the round trips of trees through XML.
RenderRequests ==
  {Asked(op, [under |-> under, base |-> base]) :
     op \in {"LimitCell::ToString", "LimitCell::ToMatlab"},
     under \in StringsUpTo(MaxLen), base \in BaseTexts}
  \cup {Asked("FunCell::ToTeX",
              [Head(FunCell_SetArg(
                      FunCell_SetName(FunCell_New(TRUE),
                                      <<TextCell(name, "TS_DEFAULT")>> \o tail), arg))
                 EXCEPT !.broken = broken]) :
          name \in FunNames, tail \in NameTails, arg \in ArgChains, broken \in BOOLEAN}
  \cup {Asked("RoundTrip", tree) : tree \in Trees}
  \cup {Asked(op, cell) : op \in {"SubSupCell::Serialize", "SubSupCell::Copy"},
                          cell \in SubSupCellsAfter(MaxSetters)}
  \cup {Asked("LimitCell::ToMathML", [under |-> under, base |-> base]) :
          under \in MathMLUnders, base \in BaseTexts}

RenderInit ==
  /\ tables = [inner |-> InnerTagsInit, group |-> GroupTagsInit]
  /\ parser = Members(NewParser(<<>>, <<>>, FALSE))
  /\ showLength = 0
  /\ call = NoCall
  /\ alive = TRUE
  /\ obj = NoObject /\ ret = NoRet
  /\ render \in RenderRequests

\* The rendering asked for is computed.
Rendered(op, out) ==
  /\ render.op = op /\ ~render.done
  /\ render' = [render EXCEPT !.done = TRUE, !.out = out]
  /\ UNCHANGED <<parserVars, cellVars>>

\* LimitCell::ToString
DoLimitToString ==
  Rendered("LimitCell::ToString",
           LimitCell_ToString(LimitOf(render.input.under, render.input.base)))

\* LimitCell::ToMatlab
DoLimitToMatlab ==
  Rendered("LimitCell::ToMatlab",
           LimitCell_ToMatlab(LimitOf(render.input.under, render.input.base)))

\* FunCell::ToTeX
DoFunToTeX == Rendered("FunCell::ToTeX", FunCell_ToTeX(render.input))

\* A tree is written as XML, the XML parsed by a new parser, the result
\* written as XML again.
DoRoundTrip ==
  LET first == ListToXML(render.input)
      r     == ParseTag(InCall(NewParser(tables.inner, tables.group, FALSE),
                               Environment(<<>>, 1, FALSE)), first, TRUE)
  IN  Rendered("RoundTrip",
               [first |-> first, parsed |-> r.cell, second |-> ListToXML(r.cell)])

\* SubSupCell::ToString, ToMatlab, ToTeX, ToMathML, ToOMML and ToXML
DoSubSupSerialize ==
  \E after \in BOOLEAN, outcome \in NullReadOutcomes :
    Rendered("SubSupCell::Serialize",
             SubSupCell_Serialize(Head(render.input), after, outcome))

\* SubSupCell::Copy, and the serializations of the original and of the copy
DoSubSupCopy ==
  \E after \in BOOLEAN, outcome \in NullReadOutcomes :
    Rendered("SubSupCell::Copy",
             [copy     |-> SubSupCell_Copy(Head(render.input)),
              original |-> SubSupCell_Serialize(Head(render.input), after, outcome),
              copied   |-> SubSupCell_Serialize(Head(SubSupCell_Copy(Head(render.input))),
                                                after, outcome)])

\* LimitCell::ToMathML
DoLimitToMathML ==
  Rendered("LimitCell::ToMathML",
           LimitCell_ToMathML(LimitOf(render.input.under, render.input.base)))

RenderNext ==
  \/ DoLimitToString \/ DoLimitToMatlab \/ DoFunToTeX \/ DoRoundTrip
  \/ DoSubSupSerialize \/ DoSubSupCopy \/ DoLimitToMathML

RenderSpec == RenderInit /\ [][RenderNext]_vars

\* ------------------------------------------------------------------------
\* Properties of the renderings
\* ------------------------------------------------------------------------

\* Where the first "->" of a string starts (0: nowhere).
ArrowAt(str) ==
  LET at == {i \in 1 .. Len(str) - 1 : str[i] = "-" /\ str[i + 1] = ">"}
  IN  IF at = {} THEN 0 ELSE CHOOSE i \in at : \A j \in at : i <= j

\* The text the specification gives for a limit of base B, variable V and
\* target T.
LimitTextExpected(B, V, T) ==
  LET Tcut == SubSeq(T, 1, Len(T) - 1)
      to   == IF T # <<>> /\ T[Len(T)] = "+" THEN Tcut \o <<",", "p", "l", "u", "s">>
              ELSE IF T # <<>> /\ T[Len(T)] = "-"
                THEN Tcut \o <<",", "m", "i", "n", "u", "s">>
              ELSE T
  IN  <<"l", "i", "m", "i", "t", "(">> \o B \o <<",">> \o V \o <<",">> \o to \o <<")">>

\* C7: for an under rendering V->T (V up to the first "->") and a base
\* rendering B, LimitCell::ToString and LimitCell::ToMatlab return
\* limit(B,V,T); a T ending in + gives limit(B,V,T',plus) and a T ending in
\* - gives limit(B,V,T',minus), T' being T without its last character.
C7_LimitTextForm ==
  (render.op \in {"LimitCell::ToString", "LimitCell::ToMatlab"} /\ render.done
     /\ ArrowAt(render.input.under) # 0) =>
    render.out =
      LimitTextExpected(render.input.base,
                        SubSeq(render.input.under, 1, ArrowAt(render.input.under) - 1),
                        SubSeq(render.input.under, ArrowAt(render.input.under) + 2,
                               Len(render.input.under)))

\* The text form of the one-sided limit x->0+ of f(x) was computed.
C7_Witness ==
  /\ render.op = "LimitCell::ToString" /\ render.done
  /\ render.input.under = <<"x", "-", ">", "0", "+">>
  /\ render.input.base = <<"f", "(", "x", ")">>
  /\ render.out = <<"l", "i", "m", "i", "t", "(", "f", "(", "x", ")", ",", "x", ",",
                    "0", ",", "p", "l", "u", "s", ")">>

C6_RoundTripIsFixedPoint ==
  (render.op = "RoundTrip" /\ render.done) => render.out.second = render.out.first

\* The number of times the token occurs in the string.
Occurrences(str, token) == Cardinality({i \in 1 .. Len(str) : str[i] = token})

\* The serializations of a SubSupCell were computed and returned.
SubSupSerialized ==
  render.op = "SubSupCell::Serialize" /\ render.done /\ render.out.returned

\* The script positions of the cell that are occupied.
Occupied(c) == {slot \in {"preSub", "preSup", "postSub", "postSup"} : Kid(c, slot) # <<>>}
HasPreScript(c) == Kid(c, "preSub") # <<>> \/ Kid(c, "preSup") # <<>>

\* C23: each serialization of a SubSupCell has the conventional form
\* (x[sub]^sup, {{x}_{sub}^{sup}}, <msubsup>, <ie> with three plain rows,
\* one <m:sSubSup>) exactly when the cell has no pre-script, and the
\* extended form exactly when it has one, whichever setters filled it.
C23_FormFollowsPreScripts ==
  SubSupSerialized =>
    LET conventional == ~HasPreScript(Head(render.input))
        out == render.out
    IN  /\ ("^" \in {out.ToString[i] : i \in 1 .. Len(out.ToString)}) <=> conventional
        /\ ("^" \in {out.ToMatlab[i] : i \in 1 .. Len(out.ToMatlab)}) <=> conventional
        /\ (SubSeq(out.ToTeX, 1, 2) = <<"{", "{">>) <=> conventional
        /\ (Head(out.ToMathML) = "<msubsup>") <=> conventional
        /\ (Head(out.ToMathML) = "<mmultiscripts>") <=> ~conventional
        /\ (Occurrences(out.ToOMML, "<m:sSubSup>") = 1) <=> conventional
        /\ (/\ Len(out.ToXML.children) = 3
            /\ \A i \in 1 .. 3 : out.ToXML.children[i].attrs = NoAttrs) <=> conventional

\* The slot of a structure: the script's own rendering, or the placeholder.
C24_Slot(rendering, placeholder) == IF rendering = <<>> THEN placeholder ELSE rendering

\* C24: the <msubsup> SubSupCell::ToMathML writes has exactly the three
\* children base, subscript, superscript, and each <m:sSubSup> of ToOMML
\* its three parts; an occupied position gives the script's rendering, an
\* empty one the placeholder.
C24_OneSlotPerPosition ==
  SubSupSerialized =>
    LET c == Head(render.input)
    IN  /\ Head(render.out.ToMathML) = "<msubsup>" =>
             render.out.ToMathML =
               <<"<msubsup>">> \o ListToMathML(Kid(c, "base"))
                 \o C24_Slot(ListToMathML(Kid(c, "postSub")), <<"<mrow/>">>)
                 \o C24_Slot(ListToMathML(Kid(c, "postSup")), <<"<mrow/>">>)
                 \o <<"</msubsup>", "NL">>
        /\ Contains(render.out.ToOMML,
                    <<"<m:sSubSup>", "<m:e>">> \o ListToOMML(Kid(c, "base"))
                      \o <<"</m:e>", "<m:sub>">>
                      \o C24_Slot(ListToOMML(Kid(c, "postSub")), <<"<m:r></m:r>">>)
                      \o <<"</m:sub>", "<m:sup>">>
                      \o C24_Slot(ListToOMML(Kid(c, "postSup")), <<"<m:r></m:r>">>)
                      \o <<"</m:sup>", "</m:sSubSup>", "NL">>)

\* C25: when a SubSupCell has a pre-script, the rendering of every occupied
\* script position occurs in each of its serializations; ToMatlab puts a
\* ";" between consecutive scripts and none before the first, ToTeX marks
\* a subscript with "_" and a superscript with "^".
C25_EveryScriptIsRendered ==
  (SubSupSerialized /\ HasPreScript(Head(render.input))) =>
    LET c == Head(render.input)
        out == render.out
    IN  /\ \A slot \in Occupied(c) :
             /\ Contains(out.ToString, ListToString(Kid(c, slot)))
             /\ Contains(out.ToMatlab, ListToMatlab(Kid(c, slot)))
             /\ Contains(out.ToTeX,
                         <<IF slot \in {"preSub", "postSub"} THEN "_" ELSE "^", "{">>
                           \o ListToTeX(Kid(c, slot)) \o <<"}">>)
             /\ Contains(out.ToMathML, ListToMathML(Kid(c, slot)))
             /\ Contains(out.ToOMML, ListToOMML(Kid(c, slot)))
             /\ \E i \in 1 .. Len(out.ToXML.children) :
                  out.ToXML.children[i].children = ListToXML(Kid(c, slot))
        /\ Occurrences(out.ToMatlab, ";") = Cardinality(Occupied(c)) - 1
        /\ ~Contains(out.ToMatlab, <<"[", ";">>)

\* C27: the copy of a SubSupCell has the occupied script positions of the
\* original and the same members in the collection of active scripts, and
\* its ToString, ToTeX, ToMathML and ToXML are the original's.
C27_CopySerializesAlike ==
  (render.op = "SubSupCell::Copy" /\ render.done) =>
    /\ Occupied(Head(render.out.copy)) = Occupied(Head(render.input))
    /\ {Head(render.out.copy).scripts[i] : i \in 1 .. Len(Head(render.out.copy).scripts)}
         = {Head(render.input).scripts[i] : i \in 1 .. Len(Head(render.input).scripts)}
    /\ (render.out.original.returned /\ render.out.copied.returned) =>
         /\ render.out.copied.ToString = render.out.original.ToString
         /\ render.out.copied.ToTeX = render.out.original.ToTeX
         /\ render.out.copied.ToMathML = render.out.original.ToMathML
         /\ render.out.copied.ToXML = render.out.original.ToXML

\* C29: no serialization of a SubSupCell reads an absent script: ToString
\* and ToMatlab return a string also for a cell whose collection of active
\* scripts is empty and whose post-subscript or post-superscript is unset.
C29_NoAbsentScriptIsRead ==
  (render.op = "SubSupCell::Serialize" /\ render.done) =>
    render.out.returned /\ ~render.out.fault

\* C30: LimitCell::ToMathML contains the MathML of the base, whether the
\* under cell renders to an empty string or not.
C30_LimitMathMLHasBase ==
  (render.op = "LimitCell::ToMathML" /\ render.done) =>
    Contains(render.out, <<"<mi>">> \o render.input.base \o <<"</mi>">>)

====
